---- MODULE Spec2Model ----
(***************************************************************************)
(* A model of rustgit's in-memory repository: the object stores, the       *)
(* directory cache, staging, commit, discard, packfile import, clone and   *)
(* push, as state machines over the fields of `Repository`.                *)
(*                                                                         *)
(* Conventions.                                                            *)
(*   - Option<T>: None is <<>>, Some(x) is <<x>>.                          *)
(*   - A Hash is the pair <<type, content>> of the object it names: the    *)
(*     digest of "<type> <len>\0" || content, taken to be collision free.  *)
(*     Hash::zero() is Zero.                                               *)
(*   - A path is a sequence of one-character strings; an entry name is a   *)
(*     non-empty sequence of characters other than "/".                    *)
(*   - An ObjectStore is a function from the hashes it holds to the        *)
(*     delta_hint of each entry (Zero when there is none): type and        *)
(*     content of an entry are those of its key.                           *)
(***************************************************************************)
EXTENDS Integers, Sequences, FiniteSets, TLC

\* Bound on the number of operations performed on one repository handle.
MaxOps == 4

\* The same bound for the behaviours in which files are read back
MaxReadOps == 3

\* The same bound for the behaviours with a remote to clone from
MaxCloneOps == 3

\* and for the behaviours with a remote to push to.
MaxPushOps == 2

None == <<>>
Some(x) == <<x>>

Zero == <<"zero", <<>>>>

Hash(obj_type, content) == <<obj_type, content>>

ObjType(h) == h[1]

Content(h) == h[2]

(***************************************************************************)
(* Paths (directory.rs)                                                    *)
(***************************************************************************)
RECURSIVE SplitAcc(_, _, _)
SplitAcc(s, cur, acc) ==
    IF s = <<>>
    THEN IF cur = <<>> THEN acc ELSE Append(acc, cur)
    ELSE IF Head(s) = "/"
         THEN SplitAcc(Tail(s), <<>>, IF cur = <<>> THEN acc ELSE Append(acc, cur))
         ELSE SplitAcc(Tail(s), Append(cur, Head(s)), acc)

\* Path::all: split on '/', empty parts filtered out.
PathAll(path) == SplitAcc(path, <<>>, <<>>)

\* Path::dirs: every component but the last; PathError when there is none.
PathDirs(path) ==
    LET all == PathAll(path)
    IN  IF Len(all) = 0 THEN "PathError" ELSE SubSeq(all, 1, Len(all) - 1)

\* Path::file: the last component; PathError when there is none.
PathFile(path) ==
    LET all == PathAll(path)
    IN  IF Len(all) = 0 THEN "PathError" ELSE all[Len(all)]

(***************************************************************************)
(* Directories (directory.rs, objectstore.rs)                              *)
(***************************************************************************)
\* The byte of a character, for the key order of LiteMap<ArcStr, _>.
CharByte(c) ==
    CASE c = "/" -> 47
      [] c = "a" -> 97
      [] c = "b" -> 98
      [] c = "c" -> 99
      [] OTHER -> 0

RECURSIVE NameLess(_, _)
NameLess(n1, n2) ==
    IF n1 = <<>> THEN n2 # <<>>
    ELSE IF n2 = <<>> THEN FALSE
    ELSE IF CharByte(Head(n1)) # CharByte(Head(n2))
         THEN CharByte(Head(n1)) < CharByte(Head(n2))
         ELSE NameLess(Tail(n1), Tail(n2))

MinName(S) == CHOOSE n \in S : \A m \in S \ {n} : NameLess(n, m)

RECURSIVE SortedNames(_)
SortedNames(S) ==
    IF S = {} THEN <<>>
    ELSE LET n == MinName(S) IN <<n>> \o SortedNames(S \ {n})

\* Directory::new()
EmptyDir == [n \in {} |-> <<>>]

DirInsert(dir, node, entry) ==
    [n \in DOMAIN dir \cup {node} |-> IF n = node THEN entry ELSE dir[n]]

DirRemove(dir, node) == [n \in DOMAIN dir \ {node} |-> dir[n]]

\* Mode as u32 written with {:o}
ModeOctal(mode) ==
    CASE mode = "Directory" -> "40000"
      [] mode = "RegularFile" -> "100644"
      [] mode = "GroupWriteableFile" -> "100664"
      [] mode = "ExecutableFile" -> "100755"
      [] mode = "SymbolicLink" -> "120000"
      [] mode = "Gitlink" -> "160000"

\* The mode match of TreeIter::next
ParseMode(text) ==
    CASE text \in {"040000", "40000"} -> "Directory"
      [] text = "100644" -> "RegularFile"
      [] text = "100664" -> "GroupWriteableFile"
      [] text = "100755" -> "ExecutableFile"
      [] text = "120000" -> "SymbolicLink"
      [] text = "160000" -> "Gitlink"
      [] OTHER -> "InvalidObject"

\* impl From<FileType> for Mode
ModeFromFileType(ft) == ft

\* The content of the tree object written by serialize_directory: one
\* <<octal mode, name, child hash>> per entry, in the map's key order.
SerializeEntries(dir) ==
    LET names == SortedNames(DOMAIN dir)
    IN  [i \in 1..Len(names) |->
            <<ModeOctal(dir[names[i]][2]), names[i], dir[names[i]][1]>>]

RECURSIVE ParseEntries(_, _)
ParseEntries(entries, dir) ==
    IF entries = <<>> THEN dir
    ELSE LET e == Head(entries)
         IN  ParseEntries(Tail(entries), DirInsert(dir, e[2], <<e[3], ParseMode(e[1])>>))

(***************************************************************************)
(* Object stores (objectstore.rs)                                          *)
(***************************************************************************)
\* ObjectStore::new()
EmptyStore == [h \in {} |-> Zero]

\* ObjectStore::has
Has(store, h) == h \in DOMAIN store

\* ObjectStore::insert / insert_entry: the entry under the hash of its
\* type and content is replaced, its delta_hint included.
StoreInsert(store, h, hint) ==
    [x \in DOMAIN store \cup {h} |-> IF x = h THEN hint ELSE store[x]]

\* ObjectStore::remove
StoreRemove(store, h) == [x \in DOMAIN store \ {h} |-> store[x]]

\* Option<Hash> -> the delta_hint field (unwrap_or(Hash::zero()))
HintField(opt) == IF opt = None THEN Zero ELSE opt[1]

\* Object::delta_hint
DeltaHint(store, h) == IF store[h] = Zero THEN None ELSE Some(store[h])

\* ObjectStore::get_as: the content, when the entry is there with that type
GetAs(store, h, obj_type) ==
    IF Has(store, h) /\ ObjType(h) = obj_type THEN Some(Content(h)) ELSE None

(***************************************************************************)
(* Repository (repository.rs).  A repository value is the record           *)
(*   [directories, objects, staged, upstream_head, head, root].            *)
(***************************************************************************)
\* Repository::new()
NewRepository ==
    [directories |-> [h \in {} |-> EmptyDir],
     objects |-> EmptyStore,
     staged |-> EmptyStore,
     upstream_head |-> Zero,
     head |-> Zero,
     root |-> None]

\* any_store_get: the scratch store first, then the main store
AnyStoreGet(r, h, obj_type) ==
    IF GetAs(r.staged, h, obj_type) # None
    THEN GetAs(r.staged, h, obj_type)
    ELSE GetAs(r.objects, h, obj_type)

\* try_find_dir: the tree object parsed into a Directory
TryFindDir(r, h) ==
    LET entries == AnyStoreGet(r, h, "tree")
    IN  IF entries = None THEN None ELSE Some(ParseEntries(entries[1], EmptyDir))

\* find_dir: an empty Directory when there is no such tree
FindDir(r, h) ==
    LET dir == TryFindDir(r, h)
    IN  IF dir = None THEN EmptyDir ELSE dir[1]

\* remove_dir: the directory is taken out of the cache when it is there
RemoveDir(r, dir_hash) ==
    IF dir_hash \in DOMAIN r.directories
    THEN [r |-> [r EXCEPT !.directories =
                    [h \in DOMAIN r.directories \ {dir_hash} |-> r.directories[h]]],
          dir |-> r.directories[dir_hash]]
    ELSE [r |-> r, dir |-> FindDir(r, dir_hash)]

\* get_dir: the cache is filled from the stores on a miss
GetDir(r, h) ==
    IF h \in DOMAIN r.directories
    THEN [r |-> r, dir |-> Some(r.directories[h])]
    ELSE LET found == TryFindDir(r, h)
         IN  IF found = None
             THEN [r |-> r, dir |-> None]
             ELSE [r |-> [r EXCEPT !.directories =
                             [x \in DOMAIN r.directories \cup {h} |->
                                 IF x = h THEN found[1] ELSE r.directories[x]]],
                   dir |-> found]

\* Mode::matches
ModeMatches(mode, entry_type) ==
    IF mode = "Directory" THEN entry_type # "File" ELSE entry_type # "Directory"

\* Lines 94-105 of find_in_dir, on what get_dir returned
FindInGot(g, node, filter) ==
    IF g.dir = None THEN [r |-> g.r, result |-> <<"MissingObject">>]
    ELSE IF node \notin DOMAIN g.dir[1] THEN [r |-> g.r, result |-> <<"PathError">>]
    ELSE IF ~ModeMatches(g.dir[1][node][2], filter)
    THEN [r |-> g.r, result |-> <<"PathError">>]
    ELSE [r |-> g.r, result |-> <<"Ok", g.dir[1][node][1], g.dir[1][node][2]>>]

\* find_in_dir: [r, result], result <<"Ok", hash, mode>> or <<error>>
FindInDir(r, dir, node, filter) == FindInGot(GetDir(r, dir), node, filter)

\* Lines 136-138 of read_file: [r, result], result <<"Ok", current>> or
\* <<error>>
RECURSIVE ReadWalk(_, _, _)
RECURSIVE ReadStep(_, _)
ReadWalk(r, current, subdirs) ==
    IF subdirs = <<>> THEN [r |-> r, result |-> <<"Ok", current>>]
    ELSE ReadStep(FindInDir(r, current, Head(subdirs), "Directory"), Tail(subdirs))

ReadStep(f, subdirs) ==
    IF f.result[1] # "Ok" THEN f ELSE ReadWalk(f.r, f.result[2], subdirs)

\* ReadBlob that takes the blob from the main store only
ReadBlobCommitted(f) ==
    IF f.result[1] # "Ok" THEN f
    ELSE IF GetAs(f.r.objects, f.result[2], "blob") = None
    THEN [r |-> f.r, result |-> <<"MissingObject">>]
    ELSE [r |-> f.r, result |-> <<"Ok", GetAs(f.r.objects, f.result[2], "blob")[1]>>]

\* Line 141 of read_file, on what find_in_dir returned
ReadBlob(f) ==
    IF f.result[1] # "Ok" THEN f
    ELSE IF AnyStoreGet(f.r, f.result[2], "blob") = None
    THEN [r |-> f.r, result |-> <<"MissingObject">>]
    ELSE [r |-> f.r, result |-> <<"Ok", AnyStoreGet(f.r, f.result[2], "blob")[1]>>]

\* Lines 140-141 of read_file, on what the walk returned
ReadLeaf(w, file_name) ==
    IF w.result[1] # "Ok" THEN w
    ELSE ReadBlob(FindInDir(w.r, w.result[2], file_name, "File"))

\* read_file: [r, result], result <<"Ok", content>> or <<error>>.  The
\* directories it goes through enter the cache.
ReadFile(r, path) ==
    IF r.root = None \/ Len(PathAll(path)) = 0
    THEN [r |-> r, result |-> <<"PathError">>]
    ELSE ReadLeaf(ReadWalk(r, r.root[1], SubSeq(PathAll(path), 1, Len(PathAll(path)) - 1)),
                  PathAll(path)[Len(PathAll(path))])

\* get_commit_field_hash(commit, CommitField::Tree): the first tree header.
\* A commit's content is <<tree, parents, message>>.
CommitTree(content) == content[1]

CommitParents(content) == content[2]

\* get_commit_root
GetCommitRoot(objects, commit_hash) ==
    LET commit == GetAs(objects, commit_hash, "commit")
    IN  IF commit = None THEN None ELSE Some(CommitTree(commit[1]))

Diverges == <<"diverges", "diverges", "diverges">>

\* find_committed_hash_root: follow the delta hints through the scratch
\* store.  The loop of the code does not end when the hints lead back to
\* a hash already visited: that outcome is Diverges.
RECURSIVE HashRootWalk(_, _, _)
HashRootWalk(staged, hash, visited) ==
    IF ~Has(staged, hash) THEN Some(hash)
    ELSE IF hash \in visited THEN Diverges
    ELSE IF DeltaHint(staged, hash) = None THEN None
    ELSE HashRootWalk(staged, DeltaHint(staged, hash)[1], visited \cup {hash})

FindCommittedHashRoot(staged, hash) == HashRootWalk(staged, hash, {})

\* UpdateDirFinish without the check of lines 199-201
UpdateDirFinishKeepsScratch(r, directory, node, result) ==
    IF result # None
    THEN [r |-> r, out |-> Some(DirInsert(directory, node, result[1])), hang |-> FALSE]
    ELSE [r |-> r,
          out |-> IF DOMAIN DirRemove(directory, node) = {} THEN None
                  ELSE Some(DirRemove(directory, node)),
          hang |-> FALSE]

\* UpdateDirFinish without the check of lines 207-210: a directory left
\* empty is kept
UpdateDirFinishKeepsEmpty(r, directory, node, result) ==
    IF result # None
    THEN [r |-> [r EXCEPT !.staged = IF Has(r.objects, result[1][1])
                                     THEN StoreRemove(@, result[1][1]) ELSE @],
          out |-> Some(DirInsert(directory, node, result[1])),
          hang |-> FALSE]
    ELSE [r |-> r, out |-> Some(DirRemove(directory, node)), hang |-> FALSE]

\* UpdateDirFinish that leaves a directory entry in place when a file is
\* staged, or a deletion is staged, under its name
UpdateDirFinishKeepsDirectory(r, directory, node, result) ==
    IF /\ node \in DOMAIN directory
       /\ directory[node][2] = "Directory"
       /\ (result = None \/ result[1][2] # "Directory")
    THEN [r |-> r, out |-> Some(directory), hang |-> FALSE]
    ELSE IF result # None
    THEN [r |-> [r EXCEPT !.staged = IF Has(r.objects, result[1][1])
                                     THEN StoreRemove(@, result[1][1]) ELSE @],
          out |-> Some(DirInsert(directory, node, result[1])),
          hang |-> FALSE]
    ELSE [r |-> r,
          out |-> IF DOMAIN DirRemove(directory, node) = {} THEN None
                  ELSE Some(DirRemove(directory, node)),
          hang |-> FALSE]

\* Lines 198-211 of update_dir: the entry of `node` is set, or removed.
\* A hash that the main store already holds is dropped from scratch.
UpdateDirFinish(r, directory, node, result) ==
    IF result # None
    THEN LET hash == result[1][1]
             st == IF Has(r.objects, hash) THEN StoreRemove(r.staged, hash) ELSE r.staged
         IN  [r |-> [r EXCEPT !.staged = st],
              out |-> Some(DirInsert(directory, node, result[1])),
              hang |-> FALSE]
    ELSE LET d == DirRemove(directory, node)
         IN  [r |-> r,
              out |-> IF DOMAIN d = {} THEN None ELSE Some(d),
              hang |-> FALSE]

\* Directories::insert on the cache
CacheInsert(cache, hash, dir) ==
    [x \in DOMAIN cache \cup {hash} |-> IF x = hash THEN dir ELSE cache[x]]

\* Lines 179-184 of update_dir: the directory to descend into
StepInto(r, prev_hash) ==
    IF prev_hash # None THEN RemoveDir(r, prev_hash[1])
    ELSE [r |-> r, dir |-> EmptyDir]

\* Lines 186-190 of update_dir: a subdirectory that came back with
\* entries is serialized into scratch and cached under its new hash;
\* one that came back empty is removed from its parent.
UpdateDirAscend(sub, directory, node, delta_hint) ==
    IF sub.hang THEN sub
    ELSE IF sub.out # None
    THEN UpdateDirFinish(
             [sub.r EXCEPT
                !.staged = StoreInsert(@, Hash("tree", SerializeEntries(sub.out[1])),
                                       HintField(delta_hint)),
                !.directories = CacheInsert(@, Hash("tree", SerializeEntries(sub.out[1])),
                                            sub.out[1])],
             directory, node,
             Some(<<Hash("tree", SerializeEntries(sub.out[1])), "Directory">>))
    ELSE UpdateDirFinish(sub.r, directory, node, None)

RECURSIVE UpdateDir(_, _, _, _, _)

\* update_dir from line 178 on, with node, prev_hash and delta_hint known
UpdateDirNode(r, directory, steps, file_name, data, node, prev_hash, delta_hint) ==
    IF delta_hint = Diverges
    THEN [r |-> r, out |-> None, hang |-> TRUE]
    ELSE IF steps # <<>>
    THEN UpdateDirAscend(
             UpdateDir(StepInto(r, prev_hash).r, StepInto(r, prev_hash).dir,
                       Tail(steps), file_name, data),
             directory, node, delta_hint)
    ELSE IF data # None
    THEN UpdateDirFinish(
             [r EXCEPT !.staged = StoreInsert(@, Hash("blob", data[1][1]),
                                              HintField(delta_hint))],
             directory, node,
             Some(<<Hash("blob", data[1][1]), ModeFromFileType(data[1][2])>>))
    ELSE UpdateDirFinish(r, directory, node, None)

\* Lines 175-176 of update_dir
PrevHash(directory, node) ==
    IF node \in DOMAIN directory THEN Some(directory[node][1]) ELSE None

HintOf(staged, prev_hash) ==
    IF prev_hash = None THEN None ELSE FindCommittedHashRoot(staged, prev_hash[1])

\* update_dir: [r, out, hang]; out is the directory, None when it is left
\* empty; hang when find_committed_hash_root does not return.
UpdateDir(r, directory, steps, file_name, data) ==
    UpdateDirNode(r, directory, steps, file_name, data,
                  IF steps # <<>> THEN Head(steps) ELSE file_name,
                  PrevHash(directory, IF steps # <<>> THEN Head(steps) ELSE file_name),
                  HintOf(r.staged,
                         PrevHash(directory, IF steps # <<>> THEN Head(steps) ELSE file_name)))

\* Lines 234-245 of stage: the new root, from the result of update_dir
StageRoot(u, old_root, prev_hash) ==
    IF u.hang \/ prev_hash = Diverges THEN [r |-> u.r, result |-> "hang"]
    ELSE IF u.out # None
    THEN [r |-> [u.r EXCEPT
                   !.staged =
                       IF Has(u.r.objects, Hash("tree", SerializeEntries(u.out[1])))
                       THEN StoreRemove(@, Hash("tree", SerializeEntries(u.out[1])))
                       ELSE StoreInsert(@, Hash("tree", SerializeEntries(u.out[1])),
                                        HintField(prev_hash)),
                   !.directories = CacheInsert(@, Hash("tree", SerializeEntries(u.out[1])),
                                               u.out[1]),
                   !.root = Some(Hash("tree", SerializeEntries(u.out[1])))],
          result |-> "Ok"]
    ELSE [r |-> [u.r EXCEPT !.root = None], result |-> "Ok"]

\* Lines 226-234 of stage, with the root directory taken out of the cache
StageFrom(rd, old_root, path, data, u) ==
    IF PathFile(path) = "PathError"
    THEN [r |-> rd.r, result |-> "PathError"]
    ELSE StageRoot(u, old_root,
                   IF u.hang \/ u.out = None THEN None ELSE HintOf(u.r.staged, old_root))

\* stage: [r, result], result one of "Ok", "PathError", "hang"
Stage(r, path, data) ==
    StageFrom(StepInto(r, r.root), r.root, path, data,
              IF PathFile(path) = "PathError" THEN None
              ELSE UpdateDir(StepInto(r, r.root).r, StepInto(r, r.root).dir,
                             PathDirs(path), PathFile(path), data))

\* The hashes of a directory's entries, in iter_values order
ChildHashes(dir) ==
    LET names == SortedNames(DOMAIN dir)
    IN  [i \in 1..Len(names) |-> dir[names[i]][1]]

\* commit_object: the scratch entry and, for a tree, the entries of its
\* cached directory are moved to the main store.  `panic` is the unwrap
\* of line 256 on a tree that the directory cache does not hold.
RECURSIVE CommitObject(_, _)
RECURSIVE CommitChildren(_, _)
CommitObject(r, hash) ==
    IF ~Has(r.staged, hash) THEN [r |-> r, panic |-> FALSE]
    ELSE LET hint == r.staged[hash]
             r1 == [r EXCEPT !.staged = StoreRemove(@, hash)]
         IN  IF ObjType(hash) = "tree"
             THEN IF hash \notin DOMAIN r1.directories
                  THEN [r |-> r1, panic |-> TRUE]
                  ELSE LET dir == r1.directories[hash]
                           r2 == [r1 EXCEPT !.directories[hash] = EmptyDir]
                           rec == CommitChildren(r2, ChildHashes(dir))
                       IN  IF rec.panic THEN rec
                           ELSE [r |-> [rec.r EXCEPT
                                          !.directories[hash] = dir,
                                          !.objects = StoreInsert(@, hash, hint)],
                                 panic |-> FALSE]
             ELSE [r |-> [r1 EXCEPT !.objects = StoreInsert(@, hash, hint)],
                   panic |-> FALSE]

CommitChildren(r, hashes) ==
    IF hashes = <<>> THEN [r |-> r, panic |-> FALSE]
    ELSE LET c == CommitObject(r, Head(hashes))
         IN  IF c.panic THEN c ELSE CommitChildren(c.r, Tail(hashes))

\* HasInvalidChar without has_newline
HasAngleBracket(string) ==
    \E i \in 1..Len(string) : string[i] \in {"<", ">"}

\* The check of lines 293-300 on one string
HasInvalidChar(string) ==
    \E i \in 1..Len(string) : string[i] \in {"\n", "<", ">"}

\* ParentHeaders that writes no parent header
NoParentHeaders(head) == <<>>

\* Lines 313-315: a parent header when head is not zero
ParentHeaders(head) == IF head # Zero THEN <<head>> ELSE <<>>

\* commit: [r, result], result one of "Ok", "InvalidObject", "panic".
\* author and committer are <<name, email>>.
Commit(r, message, author, committer, timestamp) ==
    IF \E string \in {author[1], author[2], committer[1], committer[2]} :
           HasInvalidChar(string)
    THEN [r |-> r, result |-> "InvalidObject"]
    ELSE LET promote == /\ r.root # None
                        /\ r.root # GetCommitRoot(r.objects, r.head)
             c == IF promote THEN CommitObject(r, r.root[1])
                  ELSE [r |-> r, panic |-> FALSE]
             root == IF r.root = None THEN Zero ELSE r.root[1]
             parents == ParentHeaders(r.head)
             hash == Hash("commit", <<root, parents, <<author, committer, timestamp, message>>>>)
         IN  IF c.panic THEN [r |-> c.r, result |-> "panic"]
             ELSE [r |-> [c.r EXCEPT !.objects = StoreInsert(@, hash, Zero),
                                     !.head = hash],
                   result |-> "Ok"]

\* discard_commits leaving head where it is
DiscardCommitsKeepsHead(r) == r

\* discard_commits
DiscardCommits(r) == [r EXCEPT !.head = r.upstream_head]

\* discard_changes
DiscardChanges(r) ==
    [r EXCEPT !.staged = EmptyStore,
              !.directories = [h \in {} |-> EmptyDir],
              !.root = GetCommitRoot(r.objects, r.head)]

\* discard
Discard(r) == DiscardChanges(DiscardCommits(r))

(***************************************************************************)
(* Size varints and the delta machine (packfile.rs).  A buffer is the      *)
(* sequence of its bytes, read at 0-based positions as the code does.  A   *)
(* usize is the set of the positions of its set bits, so that all of its   *)
(* WordBits bits are kept.  `build` is "debug" where the overflow checks   *)
(* of the compiler are on and "release" where they are off.                *)
(***************************************************************************)
BYTE_MSB == 128

\* the width of usize
WordBits == 64

\* the size a COPY instruction gets when its size operand is zero
DefaultCopySize == 4096

Builds == {"debug", "release"}

\* byte & (1 << n) != 0
BitSet(byte, n) == (byte \div (2 ^ n)) % 2 = 1

\* (src & src_mask) as usize, for the masks 0x0f and 0x7f
Masked(src, src_mask) == {b \in 0..7 : BitSet(src % (src_mask + 1), b)}

\* checked_shift_add from the shift on: the bits that leave the word are
\* lost in `shifted`, and the test compares what comes back with what went
ShiftAdd(size_contrib, st, amount, shift_inc) ==
    IF {b - amount : b \in {c + amount : c \in size_contrib} \cap (0..(WordBits - 1))}
         # size_contrib
    THEN [st EXCEPT !.result = "InvalidPackfile"]
    ELSE [st EXCEPT !.size = @ \cup {c + amount : c \in size_contrib},
                    !.shift = @ + shift_inc]

\* checked_shift_add.  A shift by WordBits or more panics where overflow
\* is checked, and shifts by the amount modulo WordBits where it is not.
CheckedShiftAdd(src, st, shift_inc, src_mask, build) ==
    IF st.shift >= WordBits /\ build = "debug"
    THEN [st EXCEPT !.result = "panic"]
    ELSE ShiftAdd(Masked(src, src_mask), st, st.shift % WordBits, shift_inc)

\* read_hdr_size: the loop, st.i being the position of the next byte
RECURSIVE ReadHdrLoop(_, _, _)
RECURSIVE ReadHdrNext(_, _, _, _)
ReadHdrLoop(delta, st, build) ==
    IF st.i >= Len(delta) THEN [st EXCEPT !.result = "InvalidPackfile"]
    ELSE ReadHdrNext(delta, delta[st.i + 1],
                     CheckedShiftAdd(delta[st.i + 1], st, 7, 127, build), build)

ReadHdrNext(delta, byte, st, build) ==
    IF st.result # "Ok" THEN st
    ELSE IF byte >= BYTE_MSB THEN ReadHdrLoop(delta, [st EXCEPT !.i = @ + 1], build)
    ELSE [st EXCEPT !.i = @ + 1]

\* read_hdr_size
ReadHdrSize(delta, i, build) ==
    ReadHdrLoop(delta, [size |-> {}, shift |-> 0, result |-> "Ok", i |-> i], build)

\* read_size on the buffer of a reader made by from_file, which has no
\* line to read when the buffer ends: the loop
RECURSIVE ReadSizeLoop(_, _, _)
RECURSIVE ReadSizeNext(_, _, _, _)
ReadSizeLoop(buffer, st, build) ==
    IF st.i >= Len(buffer) THEN [st EXCEPT !.result = "InvalidPackfile"]
    ELSE ReadSizeNext(buffer, buffer[st.i + 1],
                      CheckedShiftAdd(buffer[st.i + 1], st,
                                      IF st.i = 0 THEN 4 ELSE 7,
                                      IF st.i = 0 THEN 15 ELSE 127, build),
                      build)

ReadSizeNext(buffer, byte, st, build) ==
    IF st.result # "Ok" THEN st
    ELSE IF byte >= BYTE_MSB THEN ReadSizeLoop(buffer, [st EXCEPT !.i = @ + 1], build)
    ELSE IF (buffer[1] \div 16) % 8 \in {0, 5}
         THEN [st EXCEPT !.i = @ + 1, !.result = "InvalidPackfile"]
    ELSE [st EXCEPT !.i = @ + 1]

\* read_size
ReadSize(buffer, build) ==
    ReadSizeLoop(buffer, [size |-> {}, shift |-> 0, result |-> "Ok", i |-> 0], build)

Failed(error) == [result |-> error, dst |-> <<>>]

\* The operand bytes of a COPY instruction: those of the `count` bytes
\* from bit `bit0` of the instruction on that the instruction announces,
\* the k-th of them shifted by 8 * k
RECURSIVE ReadOperand(_, _, _, _, _, _, _)
ReadOperand(delta, i, instruction, bit0, count, k, acc) ==
    IF k = count THEN [ok |-> TRUE, i |-> i, value |-> acc]
    ELSE IF ~BitSet(instruction, bit0 + k)
         THEN ReadOperand(delta, i, instruction, bit0, count, k + 1, acc)
    ELSE IF i >= Len(delta) THEN [ok |-> FALSE, i |-> i, value |-> acc]
    ELSE ReadOperand(delta, i + 1, instruction, bit0, count, k + 1,
                     acc + delta[i + 1] * 2 ^ (8 * k))

\* reconstruct: the loop over the instructions
RECURSIVE Instructions(_, _, _, _)
RECURSIVE CopySize(_, _, _, _, _)
RECURSIVE CopyRange(_, _, _, _, _)
RECURSIVE PushData(_, _, _, _, _)
Instructions(delta, src, i, dst) ==
    IF i >= Len(delta) THEN [result |-> "Ok", dst |-> dst]
    ELSE IF delta[i + 1] >= BYTE_MSB
         THEN CopySize(delta, src, delta[i + 1],
                       ReadOperand(delta, i + 1, delta[i + 1], 0, 4, 0, 0), dst)
    ELSE PushData(delta, src, i + 1, i + 1 + (delta[i + 1] % 128), dst)

CopySize(delta, src, instruction, offset, dst) ==
    IF ~offset.ok THEN Failed("InvalidPackfile")
    ELSE CopyRange(delta, src, offset.value,
                   ReadOperand(delta, offset.i, instruction, 4, 3, 0, 0), dst)

CopyRange(delta, src, offset, size, dst) ==
    IF ~size.ok THEN Failed("InvalidPackfile")
    ELSE IF offset + (IF size.value = 0 THEN DefaultCopySize ELSE size.value) > Len(src)
         THEN Failed("InvalidPackfile")
    ELSE Instructions(delta, src, size.i,
                      dst \o SubSeq(src, offset + 1,
                                    offset + (IF size.value = 0 THEN DefaultCopySize
                                              ELSE size.value)))

PushData(delta, src, i, j, dst) ==
    IF j > Len(delta) THEN Failed("InvalidPackfile")
    ELSE Instructions(delta, src, j, dst \o SubSeq(delta, i + 1, j))

\* reconstruct after the first header size
ReconstructBody(delta, src, dst_buf_size) ==
    IF dst_buf_size.result # "Ok" THEN Failed(dst_buf_size.result)
    ELSE IF (WordBits - 1) \in dst_buf_size.size THEN Failed("panic")
    ELSE Instructions(delta, src, dst_buf_size.i, <<>>)

\* reconstruct.  Both header sizes are read and neither is compared with
\* anything; Vec::with_capacity panics on a capacity above isize::MAX.
Reconstruct(delta, src, build) ==
    IF ReadHdrSize(delta, 0, build).result # "Ok"
    THEN Failed(ReadHdrSize(delta, 0, build).result)
    ELSE ReconstructBody(delta, src,
                         ReadHdrSize(delta, ReadHdrSize(delta, 0, build).i, build))

(***************************************************************************)
(* Packfile import (packfile.rs, clone.rs).  A pack is the sequence of     *)
(* what its records inflate to: <<type, content>> for a record of a plain  *)
(* type, <<"ref_delta", delta, hash of the source>> for a RefDelta.        *)
(***************************************************************************)
\* read_all_objects, the loop over the records: a plain record is inserted
\* with no delta hint; a RefDelta whose source is in the store is
\* reconstructed and inserted with the type of its source, and one whose
\* source is not there is deferred.
RECURSIVE ReadRecords(_, _, _, _)
RECURSIVE ReadRefDelta(_, _, _, _, _, _)
ReadRecords(objects, pack, pending_delta, build) ==
    IF pack = <<>>
    THEN [objects |-> objects, pending_delta |-> pending_delta, result |-> "Ok"]
    ELSE IF Head(pack)[1] # "ref_delta"
         THEN ReadRecords(StoreInsert(objects, Hash(Head(pack)[1], Head(pack)[2]), Zero),
                          Tail(pack), pending_delta, build)
    ELSE IF ~Has(objects, Head(pack)[3])
         THEN ReadRecords(objects, Tail(pack), Append(pending_delta, Head(pack)), build)
    ELSE ReadRefDelta(objects, Head(pack)[3],
                      Reconstruct(Head(pack)[2], Content(Head(pack)[3]), build),
                      Tail(pack), pending_delta, build)

ReadRefDelta(objects, hash, rebuilt, rest, pending_delta, build) ==
    IF rebuilt.result # "Ok"
    THEN [objects |-> objects, pending_delta |-> pending_delta, result |-> rebuilt.result]
    ELSE ReadRecords(StoreInsert(objects, Hash(ObjType(hash), rebuilt.dst), hash),
                     rest, pending_delta, build)

\* The first deferred delta whose source is in the store, 0 when none is
FirstResolvable(objects, pending_delta) ==
    IF \E i \in 1..Len(pending_delta) : Has(objects, pending_delta[i][3])
    THEN CHOOSE i \in 1..Len(pending_delta) :
            /\ Has(objects, pending_delta[i][3])
            /\ \A j \in 1..(i - 1) : ~Has(objects, pending_delta[j][3])
    ELSE 0

\* The body of `while !pending_delta.is_empty()`: the first deferred delta
\* that can be resolved is, and the body then returns InvalidPackfile
\* whether one was resolved or not.
ResolveFirst(objects, hash, rebuilt) ==
    IF rebuilt.result # "Ok" THEN [objects |-> objects, result |-> rebuilt.result]
    ELSE [objects |-> StoreInsert(objects, Hash(ObjType(hash), rebuilt.dst), hash),
          result |-> "InvalidPackfile"]

ReadPending(objects, pending_delta, i, build) ==
    IF pending_delta = <<>> THEN [objects |-> objects, result |-> "Ok"]
    ELSE IF i = 0 THEN [objects |-> objects, result |-> "InvalidPackfile"]
    ELSE ResolveFirst(objects, pending_delta[i][3],
                      Reconstruct(pending_delta[i][2], Content(pending_delta[i][3]), build))

ReadDeferred(read, build) ==
    IF read.result # "Ok" THEN [objects |-> read.objects, result |-> read.result]
    ELSE ReadPending(read.objects, read.pending_delta,
                     FirstResolvable(read.objects, read.pending_delta), build)

\* read_all_objects
ReadAllObjects(objects, pack, build) ==
    ReadDeferred(ReadRecords(objects, pack, <<>>, build), build)

\* import_packfile: what read_all_objects inserted before it failed stays
ImportPackfile(r, pack, new_head, build) ==
    LET read == ReadAllObjects(r.objects, pack, build)
        r1 == [r EXCEPT !.objects = read.objects]
    IN  IF read.result # "Ok" THEN [r |-> r1, result |-> read.result]
        ELSE IF new_head = None THEN [r |-> r1, result |-> "Ok"]
        ELSE [r |-> [r1 EXCEPT !.head = new_head[1],
                               !.upstream_head = new_head[1],
                               !.root = GetCommitRoot(r1.objects, new_head[1])],
              result |-> "Ok"]

(***************************************************************************)
(* Clone (clone.rs).  What a call writes to its channel is a sequence of   *)
(* <<kind, payload>>: a text line, a delimiter packet, a flush packet or   *)
(* packfile data.  A remote is [caps, refs, packs, shallow_packs]:         *)
(*   caps   the capability lines, each <<key, options>> for the text       *)
(*          "key=option option ...";                                       *)
(*   refs   the ls-refs lines, each <<hash, ref_name>>, ref_name being     *)
(*          <<"HEAD">> or <<"refs/heads/", branch>>;                       *)
(*   packs, shallow_packs   the pack it answers a want with, by hash.      *)
(***************************************************************************)
\* CloneClean with the second condition of line 30 left out
CloneCleanIgnoresRoot(r) == r.upstream_head = r.head

\* Lines 29-30: the workspace test, negated
CloneClean(r) ==
    /\ r.upstream_head = r.head
    /\ \/ GetCommitRoot(r.objects, r.head) = None
       \/ GetCommitRoot(r.objects, r.head) = r.root

\* Lines 51-61
ShallowSupported(caps) ==
    \E i \in 1..Len(caps) :
        /\ caps[i][1] = "fetch"
        /\ \E j \in 1..Len(caps[i][2]) : caps[i][2][j] = "shallow"

\* Lines 76-88: the line names the reference asked for
RefMatches(ref_name, reference) ==
    IF reference[1] = "Head" THEN ref_name = <<"HEAD">>
    ELSE /\ reference[1] = "Branch"
         /\ Len(ref_name) = 2
         /\ ref_name[1] = "refs/heads/"
         /\ ref_name[2] = reference[2]

\* Lines 74-89: every line is read, the last match stays
RECURSIVE AdvertisedHead(_, _, _)
AdvertisedHead(refs, reference, acc) ==
    IF refs = <<>> THEN acc
    ELSE AdvertisedHead(Tail(refs), reference,
                        IF RefMatches(Head(refs)[2], reference)
                        THEN Head(refs)[1] ELSE acc)

\* Lines 63-89: the value head is given
CloneHead(refs, reference) ==
    IF reference[1] = "Commit" THEN reference[2]
    ELSE AdvertisedHead(refs, reference, Zero)

\* Lines 68-72
LsRefsLines(reference) ==
    IF reference[1] = "Commit" THEN <<>>
    ELSE << <<"line", <<"command=ls-refs\n">>>>, <<"delim", <<>>>>, <<"flush", <<>>>> >>

\* Lines 97-126
FetchLines(want, depth) ==
    << <<"line", <<"command=fetch\n">>>>, <<"delim", <<>>>>,
       <<"line", <<"want", want>>>>, <<"line", <<"no-progress">>>> >>
    \o (IF depth # None THEN << <<"line", <<"deepen", depth[1]>>>> >> ELSE <<>>)
    \o << <<"line", <<"done">>>>, <<"flush", <<>>>> >>

\* CloneFinish without the assignment of line 136
CloneFinishKeepsUpstream(r, pack, sent, build) ==
    LET read == ReadAllObjects(r.objects, pack, build)
    IN  IF read.result # "Ok"
        THEN [r |-> [r EXCEPT !.objects = read.objects],
              result |-> read.result, sent |-> sent]
        ELSE [r |-> [r EXCEPT !.objects = read.objects,
                              !.root = GetCommitRoot(read.objects, r.head)],
              result |-> "Ok",
              sent |-> sent]

\* Lines 130-139, on the pack the remote sent
CloneFinish(r, pack, sent, build) ==
    LET read == ReadAllObjects(r.objects, pack, build)
    IN  IF read.result # "Ok"
        THEN [r |-> [r EXCEPT !.objects = read.objects],
              result |-> read.result, sent |-> sent]
        ELSE [r |-> [r EXCEPT !.objects = read.objects,
                              !.upstream_head = r.head,
                              !.root = GetCommitRoot(read.objects, r.head)],
              result |-> "Ok",
              sent |-> sent]

\* CloneFetch without the test of lines 99-103
CloneFetchAnyDepth(r, remote, depth, sent, build) ==
    IF r.head \notin DOMAIN remote.packs
    THEN [r |-> r, result |-> "GitProtocolError",
          sent |-> sent \o FetchLines(r.head, depth)]
    ELSE CloneFinish(r,
                     IF depth = None THEN remote.packs[r.head]
                     ELSE remote.shallow_packs[r.head],
                     sent \o FetchLines(r.head, depth), build)

\* Lines 97-139; head has been set.  A remote that does not hold the
\* wanted hash sends no packfile and the wait of line 128 ends in
\* GitProtocolError.
CloneFetch(r, remote, depth, sent, build) ==
    IF depth # None /\ ~ShallowSupported(remote.caps)
    THEN [r |-> r, result |-> "UnsupportedByRemote", sent |-> sent]
    ELSE IF r.head \notin DOMAIN remote.packs
    THEN [r |-> r, result |-> "GitProtocolError",
          sent |-> sent \o FetchLines(r.head, depth)]
    ELSE CloneFinish(r,
                     IF depth = None THEN remote.packs[r.head]
                     ELSE remote.shallow_packs[r.head],
                     sent \o FetchLines(r.head, depth), build)

\* clone: [r, result, sent].  reference is <<"Head">>, <<"Branch", name>>
\* or <<"Commit", hash>>.
Clone(r, remote, reference, depth, build) ==
    IF ~CloneClean(r)
    THEN [r |-> r, result |-> "DirtyWorkspace", sent |-> <<>>]
    ELSE IF reference[1] # "Commit" /\ CloneHead(remote.refs, reference) = Zero
    THEN [r |-> [r EXCEPT !.head = Zero], result |-> "NoSuchReference",
          sent |-> LsRefsLines(reference)]
    ELSE CloneFetch([r EXCEPT !.head = CloneHead(remote.refs, reference)],
                    remote, depth, LsRefsLines(reference), build)

(***************************************************************************)
(* Push (push.rs, packfile.rs).  updated_heads is a sequence of            *)
(* <<name, hash>>.  An advertisement line is [hash, ref_name, caps] for    *)
(* the text "hash ref_name\0cap cap ...", caps being None when the line    *)
(* has no NUL.  A line of the report is <<"unpack ok">>,                   *)
(* <<"ok refs/heads/", name>> or any other tuple of its words.             *)
(***************************************************************************)
\* The hashes an object names (packfile.rs 505-521): a commit's parents
\* then its tree, a tree's entries in order
PackChildren(object) ==
    IF ObjType(object) = "commit"
    THEN CommitParents(Content(object)) \o <<CommitTree(Content(object))>>
    ELSE IF ObjType(object) = "tree"
    THEN [i \in 1..Len(Content(object)) |-> Content(object)[i][3]]
    ELSE <<>>

\* ObjectStore::pack: walk is [skip, out, count], the to_skip set, the
\* objects written to dst so far and the sum of the counts returned so far.
\* An object is written after the ones it names.
\* PackEmit that does not add the object to to_skip
PackEmitForgets(walk, object) == [walk EXCEPT !.out = Append(@, object)]

\* Lines 523-546: the object is written and joins to_skip
PackEmit(walk, object) ==
    [walk EXCEPT !.skip = @ \cup {object}, !.out = Append(@, object)]

\* Line 504: the object counts for one
PackCounted(walk) == [walk EXCEPT !.count = @ + 1]

RECURSIVE PackObject(_, _, _)
RECURSIVE PackAll(_, _, _)
PackObject(objects, object, walk) ==
    IF object \in walk.skip \/ ~Has(objects, object) THEN walk
    ELSE PackEmit(PackAll(objects, PackChildren(object), PackCounted(walk)), object)

PackAll(objects, hashes, walk) ==
    IF hashes = <<>> THEN walk
    ELSE PackAll(objects, Tail(hashes), PackObject(objects, Head(hashes), walk))

\* The hashes of heads_to_include
HeadHashes(heads_to_include) ==
    [i \in 1..Len(heads_to_include) |-> heads_to_include[i][2]]

\* Lines 136-147 of Repository::pack: the walk that counts, on a copy of
\* to_skip
PackFirstWalk(r, to_skip, heads_to_include) ==
    PackAll(r.objects, HeadHashes(heads_to_include),
            [skip |-> to_skip, out |-> <<>>, count |-> 0])

\* PackSecondWalk on the to_skip set the first walk has filled
PackSecondWalkAfterFirst(r, to_skip, heads_to_include) ==
    PackAll(r.objects, HeadHashes(heads_to_include),
            [skip |-> PackFirstWalk(r, to_skip, heads_to_include).skip,
             out |-> <<>>, count |-> 0])

\* Lines 151-153: the walk that writes, on to_skip itself
PackSecondWalk(r, to_skip, heads_to_include) ==
    PackAll(r.objects, HeadHashes(heads_to_include),
            [skip |-> to_skip, out |-> <<>>, count |-> 0])

\* Line 150: the number of objects dump_packfile_header is given
PackNumObjects(r, to_skip, heads_to_include) ==
    PackFirstWalk(r, to_skip, heads_to_include).count

\* Repository::pack: the objects reached from the heads, in the order they
\* are written after the header
Pack(r, to_skip, heads_to_include) ==
    <<"pack", PackSecondWalk(r, to_skip, heads_to_include).out>>

\* Lines 17-18: the map of name to (new hash, old hash)
HeadMap(updated_heads) ==
    [name \in {updated_heads[i][1] : i \in 1..Len(updated_heads)} |->
        <<updated_heads[CHOOSE i \in 1..Len(updated_heads) :
                            updated_heads[i][1] = name][2],
          Zero>>]

\* Lines 35-39: the state of the advertisement loop
AdvInit(updated_heads) ==
    [head_map |-> HeadMap(updated_heads),
     to_skip |-> {},
     thin_pack |-> FALSE,
     report_status |-> FALSE,
     client_caps |-> <<"report-status">>,
     must_force |-> FALSE]

IsThinPack(cap) == cap = "thin-pack"

\* Lines 42-58
AdvCaps(st, line) ==
    IF line.caps = None THEN st
    ELSE [st EXCEPT
             !.thin_pack = @ \/ \E k \in 1..Len(line.caps[1]) : line.caps[1][k] = "thin-pack",
             !.report_status = @ \/ \E k \in 1..Len(line.caps[1]) : line.caps[1][k] = "report-status",
             !.client_caps = @ \o SelectSeq(line.caps[1], IsThinPack)]

\* AdvRef without the test of line 63
AdvRefNeverRefuses(r, st, line, force_push) ==
    IF Len(line.ref_name) = 2 /\ line.ref_name[1] = "refs/heads/"
          /\ line.ref_name[2] \in DOMAIN st.head_map
    THEN [st EXCEPT !.head_map[line.ref_name[2]][2] = line.hash,
                    !.to_skip = IF st.thin_pack
                                THEN PackObject(r.objects, line.hash,
                                                [skip |-> @, out |-> <<>>, count |-> 0]).skip
                                ELSE @]
    ELSE st

\* Lines 60-75
AdvRef(r, st, line, force_push) ==
    IF Len(line.ref_name) = 2 /\ line.ref_name[1] = "refs/heads/"
          /\ line.ref_name[2] \in DOMAIN st.head_map
    THEN IF force_push \/ Has(r.objects, line.hash)
         THEN [st EXCEPT !.head_map[line.ref_name[2]][2] = line.hash,
                         !.to_skip = IF st.thin_pack
                                     THEN PackObject(r.objects, line.hash,
                                                     [skip |-> @, out |-> <<>>, count |-> 0]).skip
                                     ELSE @]
         ELSE [st EXCEPT !.must_force = TRUE]
    ELSE st

\* Lines 41-76: the lines are read until the flush, or until one makes
\* the call return MustForcePush
RECURSIVE Advertisement(_, _, _, _)
Advertisement(r, st, lines, force_push) ==
    IF lines = <<>> \/ st.must_force THEN st
    ELSE Advertisement(r, AdvRef(r, AdvCaps(st, Head(lines)), Head(lines), force_push),
                       Tail(lines), force_push)

\* Lines 83-90: one line per name in the order of the map's keys, the
\* capabilities on the first, then a flush
CommandLines(head_map, client_caps) ==
    [i \in 1..Cardinality(DOMAIN head_map) |->
        <<"line", <<head_map[SortedNames(DOMAIN head_map)[i]][2],
                    head_map[SortedNames(DOMAIN head_map)[i]][1],
                    SortedNames(DOMAIN head_map)[i],
                    IF i = 1 THEN client_caps ELSE <<>>>>>>]
    \o << <<"flush", <<>>>> >>

\* Lines 108-116: ack is [names, unexpected], the names left in the map
\* and whether a line that is not an ok line was read
RECURSIVE Acknowledge(_, _)
Acknowledge(ack, lines) ==
    IF lines = <<>> \/ ack.unexpected THEN ack
    ELSE IF Len(Head(lines)) = 2 /\ Head(lines)[1] = "ok refs/heads/"
    THEN Acknowledge([ack EXCEPT !.names = @ \ {Head(lines)[2]}], Tail(lines))
    ELSE [ack EXCEPT !.unexpected = TRUE]

\* PushReport that takes an unacknowledged name for acknowledged
PushReportForgetful(r, names, report, sent) ==
    IF report = <<>> \/ Head(report) # <<"unpack ok">>
    THEN [r |-> r, result |-> "GitProtocolError", sent |-> sent]
    ELSE IF Acknowledge([names |-> names, unexpected |-> FALSE], Tail(report)).unexpected
    THEN [r |-> r, result |-> "GitProtocolError", sent |-> sent]
    ELSE [r |-> [r EXCEPT !.upstream_head = r.head], result |-> "Ok", sent |-> sent]

\* PushReport that leaves upstream_head as it was
PushReportKeepsUpstream(r, names, report, sent) ==
    IF report = <<>> \/ Head(report) # <<"unpack ok">>
    THEN [r |-> r, result |-> "GitProtocolError", sent |-> sent]
    ELSE IF \/ Acknowledge([names |-> names, unexpected |-> FALSE], Tail(report)).unexpected
            \/ Acknowledge([names |-> names, unexpected |-> FALSE], Tail(report)).names # {}
    THEN [r |-> r, result |-> "GitProtocolError", sent |-> sent]
    ELSE [r |-> r, result |-> "Ok", sent |-> sent]

\* Lines 96-126
PushReport(r, names, report, sent) ==
    IF report = <<>> \/ Head(report) # <<"unpack ok">>
    THEN [r |-> r, result |-> "GitProtocolError", sent |-> sent]
    ELSE IF \/ Acknowledge([names |-> names, unexpected |-> FALSE], Tail(report)).unexpected
            \/ Acknowledge([names |-> names, unexpected |-> FALSE], Tail(report)).names # {}
    THEN [r |-> r, result |-> "GitProtocolError", sent |-> sent]
    ELSE [r |-> [r EXCEPT !.upstream_head = r.head], result |-> "Ok", sent |-> sent]

\* PushSend without the test of lines 78-81
PushSendUnchecked(r, st, updated_heads, report) ==
    IF st.must_force
    THEN [r |-> r, result |-> "MustForcePush", sent |-> <<>>]
    ELSE PushReport(r, DOMAIN st.head_map, report,
                    Append(CommandLines(st.head_map, st.client_caps),
                           Pack(r, st.to_skip, updated_heads)))

\* Lines 72-126, from the state the advertisement loop ended in
PushSend(r, st, updated_heads, report) ==
    IF st.must_force
    THEN [r |-> r, result |-> "MustForcePush", sent |-> <<>>]
    ELSE IF ~st.report_status
    THEN [r |-> r, result |-> "UnsupportedByRemote", sent |-> <<>>]
    ELSE PushReport(r, DOMAIN st.head_map, report,
                    Append(CommandLines(st.head_map, st.client_caps),
                           Pack(r, st.to_skip, updated_heads)))

\* push: [r, result, sent]
Push(r, advertisement, updated_heads, force_push, report) ==
    PushSend(r, Advertisement(r, AdvInit(updated_heads), advertisement, force_push),
             updated_heads, report)

(***************************************************************************)
(* PackfileSender (packfile.rs).  Bytes are kept as runs: a run is         *)
(* <<kind, of, from, to>>, the bytes at positions from..to-1 of a source.  *)
(* The source of a "data" run is the stream of bytes the caller writes,    *)
(* numbered from 0 in the order of the writes; the source of a "sha1" run  *)
(* is the 20-byte digest of the bytes `of`.  A Vec<u8> or a slice is the   *)
(* sequence of its runs, adjacent runs of one source joined.  A sender is  *)
(* [buffer, result, hasher]; the channel is the sequence of                *)
(* [slice, result], one for each call of write_raw.                        *)
(***************************************************************************)
MAX == 64000

RunLen(run) == run[4] - run[3]

RECURSIVE RunsLen(_)
RunsLen(runs) == IF runs = <<>> THEN 0 ELSE RunLen(Head(runs)) + RunsLen(Tail(runs))

RECURSIVE RunsNorm(_)
\* The same bytes with no empty run and adjacent runs joined
RunsNorm(runs) ==
    IF runs = <<>> THEN <<>>
    ELSE IF RunLen(Head(runs)) = 0 THEN RunsNorm(Tail(runs))
    ELSE IF Len(runs) >= 2 /\ RunLen(runs[2]) = 0
    THEN RunsNorm(<<Head(runs)>> \o SubSeq(runs, 3, Len(runs)))
    ELSE IF /\ Len(runs) >= 2
            /\ runs[2][1] = runs[1][1] /\ runs[2][2] = runs[1][2]
            /\ runs[2][3] = runs[1][4]
    THEN RunsNorm(<< <<runs[1][1], runs[1][2], runs[1][3], runs[2][4]>> >>
                      \o SubSeq(runs, 3, Len(runs)))
    ELSE <<Head(runs)>> \o RunsNorm(Tail(runs))

RECURSIVE RunsTake(_, _)
\* The first n bytes, or all of them when there are fewer
RunsTake(runs, n) ==
    IF runs = <<>> \/ n = 0 THEN <<>>
    ELSE IF RunLen(Head(runs)) <= n
    THEN <<Head(runs)>> \o RunsTake(Tail(runs), n - RunLen(Head(runs)))
    ELSE << <<Head(runs)[1], Head(runs)[2], Head(runs)[3], Head(runs)[3] + n>> >>

RECURSIVE RunsDrop(_, _)
\* The bytes after the first n
RunsDrop(runs, n) ==
    IF runs = <<>> \/ n = 0 THEN runs
    ELSE IF RunLen(Head(runs)) <= n
    THEN RunsDrop(Tail(runs), n - RunLen(Head(runs)))
    ELSE << <<Head(runs)[1], Head(runs)[2], Head(runs)[3] + n, Head(runs)[4]>> >>
             \o Tail(runs)

\* PackfileSender::new
NewSender == [buffer |-> <<>>, result |-> "Ok", hasher |-> <<>>]

\* SliceChunks with slices one byte longer
SliceChunksLonger(bytes, size) ==
    IF bytes = <<>> THEN <<>>
    ELSE IF RunsLen(bytes) <= size + 1 THEN <<bytes>>
    ELSE <<RunsTake(bytes, size + 1), RunsDrop(bytes, size + 1)>>

RECURSIVE SliceChunks(_, _)
\* slice::chunks: slices of `size` bytes, the last one of what is left
SliceChunks(bytes, size) ==
    IF bytes = <<>> THEN <<>>
    ELSE <<RunsTake(bytes, size)>> \o SliceChunks(RunsDrop(bytes, size), size)

RECURSIVE SendChunks(_, _, _, _)
\* Lines 480-486: write_raw is called with each slice while result is Ok;
\* the call numbered fail_at fails, none when fail_at is 0
SendChunks(slices, result, channel, fail_at) ==
    IF slices = <<>> \/ result # "Ok" THEN [result |-> result, channel |-> channel]
    ELSE SendChunks(Tail(slices),
                    IF fail_at = 1 THEN "GitProtocolError" ELSE "Ok",
                    Append(channel,
                           [slice |-> Head(slices),
                            result |-> IF fail_at = 1 THEN "GitProtocolError" ELSE "Ok"]),
                    fail_at - 1)

\* flush: [sender, channel]
SenderFlush(sender, channel, fail_at) ==
    [sender |-> [sender EXCEPT
                    !.result = SendChunks(SliceChunks(sender.buffer, MAX), sender.result,
                                          channel, fail_at).result,
                    !.buffer = <<>>],
     channel |-> SendChunks(SliceChunks(sender.buffer, MAX), sender.result,
                            channel, fail_at).channel]

\* Lines 471-472 of write
SenderTakes(sender, buf) ==
    [sender EXCEPT !.hasher = RunsNorm(@ \o buf), !.buffer = RunsNorm(@ \o buf)]

\* write: [sender, channel, result]
SenderWrite(sender, channel, buf, fail_at) ==
    IF RunsLen(SenderTakes(sender, buf).buffer) > MAX
    THEN [sender |-> SenderFlush(SenderTakes(sender, buf), channel, fail_at).sender,
          channel |-> SenderFlush(SenderTakes(sender, buf), channel, fail_at).channel,
          result |-> "Ok"]
    ELSE [sender |-> SenderTakes(sender, buf), channel |-> channel, result |-> "Ok"]

\* Lines 459-460 of finish: the digest of what the hasher was given
SenderChecksum(sender) ==
    [sender EXCEPT !.buffer = RunsNorm(@ \o << <<"sha1", sender.hasher, 0, 20>> >>)]

\* finish: [sender, channel, result]
SenderFinish(sender, channel, fail_at) ==
    [sender |-> SenderFlush(SenderChecksum(sender), channel, fail_at).sender,
     channel |-> SenderFlush(SenderChecksum(sender), channel, fail_at).channel,
     result |-> SenderFlush(SenderChecksum(sender), channel, fail_at).sender.result]

(***************************************************************************)
(* Views of a repository value, for the statements about it                *)
(***************************************************************************)
\* The directory that get_dir or remove_dir yields for a hash: the cached
\* one, else the tree object of either store, else an empty one.
DirOf(r, h) == IF h \in DOMAIN r.directories THEN r.directories[h] ELSE FindDir(r, h)

RootDir(r) == IF r.root = None THEN EmptyDir ELSE DirOf(r, r.root[1])

\* The entries <<hash, mode>> that the successive segments name, from the
\* given directory down, up to the first segment that names nothing.
RECURSIVE EntriesAlong(_, _, _)
EntriesAlong(r, dir, segs) ==
    IF segs = <<>> THEN <<>>
    ELSE IF Head(segs) \notin DOMAIN dir THEN <<>>
    ELSE <<dir[Head(segs)]>> \o EntriesAlong(r, DirOf(r, dir[Head(segs)][1]), Tail(segs))

Along(r, path) == EntriesAlong(r, RootDir(r), PathAll(path))

\* The path names an entry: each segment but the last names a directory
\* and the last one names an entry of it.
NamesEntry(r, path) ==
    /\ Len(PathAll(path)) > 0
    /\ Len(Along(r, path)) = Len(PathAll(path))
    /\ \A i \in 1..(Len(PathAll(path)) - 1) : Along(r, path)[i][2] = "Directory"

\* The tree is held as stage writes it: a directory with entries whose
\* serialization has this very identifier.
AsStaged(r, h) ==
    /\ ObjType(h) = "tree"
    /\ DOMAIN DirOf(r, h) # {}
    /\ Hash("tree", SerializeEntries(DirOf(r, h))) = h

\* The root, and every entry that a prefix of the path names, is a
\* directory held as stage writes it.
PathOfStagedDirs(r, path) ==
    /\ r.root # None => AsStaged(r, r.root[1])
    /\ \A i \in 1..Len(Along(r, path)) :
          /\ Along(r, path)[i][2] = "Directory"
          /\ AsStaged(r, Along(r, path)[i][1])

\* The hashes of the root and of the entries along the path
HashesAlong(r, path) ==
    (IF r.root = None THEN {} ELSE {r.root[1]})
        \cup {Along(r, path)[i][1] : i \in 1..Len(Along(r, path))}

(***************************************************************************)
(* Packet lines (protocol.rs).  A byte is an integer in 0..255; the        *)
(* transport, the receive buffer and a line are sequences of bytes.        *)
(***************************************************************************)
\* The lowercase hexadecimal digit of a value below sixteen, as {:x} writes it
HexDigit(k) == IF k < 10 THEN 48 + k ELSE 87 + k

\* The value of a hexadecimal digit as from_str_radix reads it, -1 for any
\* other byte
HexValue(byte) ==
    IF byte \in 48..57 THEN byte - 48
    ELSE IF byte \in 97..102 THEN byte - 87
    ELSE IF byte \in 65..70 THEN byte - 55
    ELSE -1

RECURSIVE RadixValue(_, _)
\* The digits accumulated most significant first, None at the first byte
\* that is no digit
RadixValue(digits, acc) ==
    IF digits = <<>> THEN Some(acc)
    ELSE IF HexValue(Head(digits)) < 0 THEN None
    ELSE RadixValue(Tail(digits), acc * 16 + HexValue(Head(digits)))

\* from_str_radix(text, 16) of an unsigned type: one leading '+' is taken
\* as a sign, and a text with no digit is refused
FromStrRadix(text) ==
    IF text = <<>> THEN None
    ELSE IF Head(text) = 43 \* '+'
         THEN (IF Tail(text) = <<>> THEN None ELSE RadixValue(Tail(text), 0))
    ELSE RadixValue(text, 0)

\* parse_len of the four bytes of a line header
ParseLen(bytes) == FromStrRadix(bytes)

\* What read_line skips at the next call after a header whose length is
\* below four
ControlSkipsDeclared(len) == len

ControlSkip(len) == 4

\* The bytes read_line hands out for a line of the given length
FrameWithHeader(received, len) == SubSeq(received, 1, len)

FrameData(received, len) == SubSeq(received, 5, len)

\* One turn of the loop of read_line before it polls: whether the call
\* ends, and with what
ReadLineCheck(received) ==
    IF Len(received) < 4
    THEN [done |-> FALSE, result |-> "", to_skip |-> 0, line |-> <<>>]
    ELSE IF ParseLen(SubSeq(received, 1, 4)) = None
    THEN [done |-> TRUE, result |-> "GitProtocolError", to_skip |-> 0, line |-> <<>>]
    ELSE IF ParseLen(SubSeq(received, 1, 4))[1] < 4
    THEN [done |-> TRUE, result |-> "None",
          to_skip |-> ControlSkip(ParseLen(SubSeq(received, 1, 4))[1]), line |-> <<>>]
    ELSE IF Len(received) >= ParseLen(SubSeq(received, 1, 4))[1]
    THEN [done |-> TRUE, result |-> "Some",
          to_skip |-> ParseLen(SubSeq(received, 1, 4))[1],
          line |-> FrameData(received, ParseLen(SubSeq(received, 1, 4))[1])]
    ELSE [done |-> FALSE, result |-> "", to_skip |-> 0, line |-> <<>>]

\* drain(0..to_skip) of the receive buffer
Drain(received, skip) ==
    SubSeq(received, skip + 1, Len(received))

(***************************************************************************)
(* Identifiers as text (objectstore.rs).  An identifier is here the        *)
(* sequence of its twenty bytes, a text the sequence of its bytes.         *)
(***************************************************************************)
\* Hash::from_hex
FromHex(hex) ==
    IF Len(hex) = 40 /\ (\A i \in 1..Len(hex) : hex[i] < 128)
    THEN IF \E k \in 1..20 : FromStrRadix(SubSeq(hex, 2 * k - 1, 2 * k)) = None
         THEN None
         ELSE Some([k \in 1..20 |-> FromStrRadix(SubSeq(hex, 2 * k - 1, 2 * k))[1]])
    ELSE None

\* Display for Hash: two lowercase digits for each byte
ToHex(bytes) ==
    [i \in 1..(2 * Len(bytes)) |->
        IF i % 2 = 1 THEN HexDigit(bytes[(i + 1) \div 2] \div 16)
        ELSE HexDigit(bytes[i \div 2] % 16)]

(***************************************************************************)
(* Side-band lines (packfile.rs)                                           *)
(***************************************************************************)
\* from_utf8 succeeds; on the bytes used here, which are ASCII or 0xff
IsUtf8(data) == \A i \in 1..Len(data) : data[i] < 128

\* What PackfileReader::read_line makes of the result of the protocol's
\* read_line: reader is the pair of buffers, logs tells whether the level of
\* the log macro the line reaches is enabled (its argument, with the
\* conversion and its `?`, is evaluated only then)
SidebandLine(reader, result, line, logs) ==
    IF result # "Some" \/ line = <<>>
    THEN [buffer |-> reader.buffer, out |-> reader.out, result |-> "GitProtocolError"]
    ELSE IF Head(line) = 1
    THEN [buffer |-> reader.buffer \o Tail(line), out |-> reader.out \o Tail(line),
          result |-> "Ok"]
    ELSE IF logs /\ ~IsUtf8(Tail(line))
    THEN [buffer |-> reader.buffer, out |-> reader.out, result |-> "GitProtocolError"]
    ELSE [buffer |-> reader.buffer, out |-> reader.out,
          result |-> IF Head(line) = 0 \/ Head(line) > 2 THEN "GitProtocolError" ELSE "Ok"]

(***************************************************************************)
(* Tree objects as bytes (objectstore.rs).  A name is the sequence of its  *)
(* bytes, a hash the sequence of its twenty bytes, and a directory the     *)
(* sequence of the <<name, hash, mode>> entries of its map, in key order.  *)
(***************************************************************************)
RECURSIVE BytesLess(_, _)
\* The order of the keys of LiteMap<ArcStr, _>: the order of str, byte by byte
BytesLess(n1, n2) ==
    IF n1 = <<>> THEN n2 # <<>>
    ELSE IF n2 = <<>> THEN FALSE
    ELSE IF Head(n1) # Head(n2) THEN Head(n1) < Head(n2)
    ELSE BytesLess(Tail(n1), Tail(n2))

\* LiteMap::insert: the entry takes the place of the one with its key, or
\* the place its key has in the order
LiteMapInsert(map, entry) ==
    SelectSeq(map, LAMBDA e : BytesLess(e[1], entry[1]))
        \o <<entry>>
        \o SelectSeq(map, LAMBDA e : BytesLess(entry[1], e[1]))

RECURSIVE LiteMapFromInsertions(_, _)
LiteMapFromInsertions(insertions, map) ==
    IF insertions = <<>> THEN map
    ELSE LiteMapFromInsertions(Tail(insertions), LiteMapInsert(map, Head(insertions)))

\* Mode as u32
ModeValue(mode) ==
    CASE mode = "Directory" -> 16384
      [] mode = "RegularFile" -> 33188
      [] mode = "GroupWriteableFile" -> 33204
      [] mode = "ExecutableFile" -> 33261
      [] mode = "SymbolicLink" -> 40960
      [] mode = "Gitlink" -> 57344

RECURSIVE Octal(_)
\* The bytes {:o} writes for a number
Octal(n) == IF n < 8 THEN <<48 + n>> ELSE Octal(n \div 8) \o <<48 + (n % 8)>>

RECURSIVE SerializeDirectoryBytes(_)
\* The content serialize_directory builds: for each entry of the map, in its
\* order, the mode in octal, a space, the name, a NUL and the bytes of the hash
SerializeDirectoryBytes(dir) ==
    IF dir = <<>> THEN <<>>
    ELSE Octal(ModeValue(Head(dir)[3])) \o <<32>> \o Head(dir)[1] \o <<0>> \o Head(dir)[2]
            \o SerializeDirectoryBytes(Tail(dir))

\* The index of the first byte equal to the given one, 0 when there is none
FirstIndex(bytes, byte) ==
    IF \E i \in 1..Len(bytes) : bytes[i] = byte
    THEN CHOOSE i \in 1..Len(bytes) :
            bytes[i] = byte /\ \A j \in 1..(i - 1) : bytes[j] # byte
    ELSE 0

RECURSIVE BytesToText(_)
\* The text of the bytes of a mode, for the match of TreeIter::next
BytesToText(bytes) ==
    IF bytes = <<>> THEN ""
    ELSE (CASE Head(bytes) = 48 -> "0"
            [] Head(bytes) = 49 -> "1"
            [] Head(bytes) = 50 -> "2"
            [] Head(bytes) = 51 -> "3"
            [] Head(bytes) = 52 -> "4"
            [] Head(bytes) = 53 -> "5"
            [] Head(bytes) = 54 -> "6"
            [] Head(bytes) = 55 -> "7"
            [] OTHER -> "?") \o BytesToText(Tail(bytes))

\* TreeIter::next on the bytes left: the entry, if any, and the bytes left
\* after it
TreeIterNext(entries) ==
    IF Len(entries) = 0 THEN [result |-> "Ok", item |-> None, entries |-> entries]
    ELSE IF FirstIndex(entries, 0) = 0
            \/ ~IsUtf8(SubSeq(entries, 1, FirstIndex(entries, 0) - 1))
            \/ FirstIndex(SubSeq(entries, 1, FirstIndex(entries, 0) - 1), 32) = 0
            \/ Len(entries) - FirstIndex(entries, 0) < 20
            \/ ParseMode(BytesToText(SubSeq(entries, 1, FirstIndex(entries, 32) - 1)))
                   = "InvalidObject"
    THEN [result |-> "InvalidObject", item |-> None, entries |-> entries]
    ELSE [result |-> "Ok",
          item |-> Some(<<SubSeq(entries, FirstIndex(entries, 32) + 1, FirstIndex(entries, 0) - 1),
                          SubSeq(entries, FirstIndex(entries, 0) + 1, FirstIndex(entries, 0) + 20),
                          ParseMode(BytesToText(SubSeq(entries, 1, FirstIndex(entries, 32) - 1)))>>),
          entries |-> SubSeq(entries, FirstIndex(entries, 0) + 21, Len(entries))]

RECURSIVE TreeIterAll(_, _)
\* The entries a TreeIter yields until it ends or fails
TreeIterAll(entries, items) ==
    IF TreeIterNext(entries).result # "Ok"
    THEN [result |-> "InvalidObject", items |-> items]
    ELSE IF TreeIterNext(entries).item = None THEN [result |-> "Ok", items |-> items]
    ELSE TreeIterAll(TreeIterNext(entries).entries,
                     Append(items, TreeIterNext(entries).item[1]))

(***************************************************************************)
(* The state machine                                                       *)
(***************************************************************************)
VARIABLES
    directories,    \* Repository.directories: Hash -> Directory
    objects,        \* Repository.objects
    staged,         \* Repository.staged
    upstream_head,  \* Repository.upstream_head
    head,           \* Repository.head
    root,           \* Repository.root: Option<Hash>
    last,           \* the last call: its name, arguments and result
    pre,            \* the repository as it was when the last call began
    sent,           \* what the last call wrote to its channel, in order
    calls_left,     \* number of calls the behaviour may still make
    receive_buffer, \* GitProtocol.receive_buffer: bytes received and not yet drained
    to_skip,        \* GitProtocol.to_skip: bytes the next read_line drains first
    run,            \* GitProtocol.run: the bytes the remote has yet to deliver
    pc,             \* "idle" between calls, "poll" while read_line waits for an event
    buffer,         \* PackfileReader.buffer: the packfile bytes received so far
    out             \* PackfileReader.out: a copy of every packfile byte received

vars ==
    <<directories, objects, staged, upstream_head, head, root, last, pre, sent, calls_left,
      receive_buffer, to_skip, run, pc, buffer, out>>

protocolVars == <<receive_buffer, to_skip, run, pc>>

readerVars == <<buffer, out>>

\* No connection is open: the state of every behaviour that only uses the repository.
NoProtocol ==
    /\ receive_buffer = <<>>
    /\ to_skip = 0
    /\ run = <<>>
    /\ pc = "idle"
    /\ buffer = <<>>
    /\ out = <<>>

repoVars == <<directories, objects, staged, upstream_head, head, root>>

Repo ==
    [directories |-> directories, objects |-> objects, staged |-> staged,
     upstream_head |-> upstream_head, head |-> head, root |-> root]

SetRepo(r) ==
    /\ directories' = r.directories
    /\ objects' = r.objects
    /\ staged' = r.staged
    /\ upstream_head' = r.upstream_head
    /\ head' = r.head
    /\ root' = r.root

\* A call can be made: the process has neither panicked nor stopped
\* answering, and the behaviour is within its bound.
CanCall == calls_left > 0 /\ last.result \notin {"panic", "hang"}

Called == pre' = Repo /\ calls_left' = calls_left - 1 /\ UNCHANGED <<protocolVars, readerVars>>

\* Inputs
Paths ==
    { <<"a">>, <<"a", "/", "b">>, <<"b", "/", "b">>, <<"/">> }

StageData ==
    { None, Some(<<1, "RegularFile">>), Some(<<2, "RegularFile">>) }

GoodIdentity == << <<"N">>, <<"e">> >>

BadIdentity == << <<"N", "<">>, <<"e">> >>

BadEmail == << <<"N">>, <<">", "e">> >>

TwoLines == << <<"N">>, <<"e", "\n">> >>

\* <<author, committer>> of a commit
CommitIdentities ==
    { <<GoodIdentity, GoodIdentity>>, <<BadIdentity, GoodIdentity>>,
      <<BadEmail, GoodIdentity>>, <<GoodIdentity, TwoLines>> }

\* Objects of a remote repository
RBlob1 == Hash("blob", 1)

RTreeA == Hash("tree", << <<"100644", <<"a">>, RBlob1>> >>)

RCommit1 == Hash("commit", <<RTreeA, <<>>, <<GoodIdentity, GoodIdentity, 0, "first">>>>)

RTreeB == Hash("tree", << <<"100644", <<"b">>, RBlob1>> >>)

\* A tree as other clients write it: the directory mode in six digits
RTreeAB == Hash("tree", << <<"040000", <<"a">>, RTreeB>> >>)

RCommit2 == Hash("commit", <<RTreeAB, <<RCommit1>>, <<GoodIdentity, GoodIdentity, 0, "second">>>>)

Packs ==
    { <<RCommit1, RTreeA, RBlob1>>,
      <<RCommit2, RTreeAB, RTreeB>> }

PackHeads(pack) == {None} \cup {Some(o) : o \in {pack[1]}}

\* Remote repositories as upload-pack serves them
RemotePacks ==
    [h \in {RCommit1, RCommit2} |->
        IF h = RCommit1 THEN <<RCommit1, RTreeA, RBlob1>>
        ELSE <<RCommit2, RTreeAB, RTreeB, RCommit1, RTreeA, RBlob1>>]

RemoteShallowPacks ==
    [h \in {RCommit1, RCommit2} |->
        IF h = RCommit1 THEN <<RCommit1, RTreeA, RBlob1>>
        ELSE <<RCommit2, RTreeAB, RTreeB, RBlob1>>]

RemoteRefs ==
    << <<RCommit2, <<"HEAD">>>>,
       <<RCommit1, <<"refs/heads/", <<"a">>>>>>,
       <<RCommit2, <<"refs/heads/", <<"b">>>>>> >>

Remotes ==
    { [caps |-> << <<"agent", <<"git">>>>, <<"fetch", <<"shallow", "filter">>>> >>,
       refs |-> RemoteRefs, packs |-> RemotePacks, shallow_packs |-> RemoteShallowPacks],
      [caps |-> << <<"agent", <<"git">>>>, <<"fetch", <<"filter">>>> >>,
       refs |-> RemoteRefs, packs |-> RemotePacks, shallow_packs |-> RemoteShallowPacks],
      [caps |-> << <<"fetch", <<"shallow">>>> >>,
       refs |-> <<>>, packs |-> RemotePacks, shallow_packs |-> RemoteShallowPacks] }

\* A commit no remote holds
LostCommit == Hash("commit", <<RTreeB, <<>>, <<GoodIdentity, GoodIdentity, 0, "lost">>>>)

References ==
    { <<"Head">>, <<"Branch", <<"a">>>>, <<"Branch", <<"c">>>>,
      <<"Commit", RCommit1>>, <<"Commit", LostCommit>> }

Depths == { None, Some(1) }

\* Remote repositories as receive-pack serves them: the advertisement
AdvLine(hash, ref_name, caps) == [hash |-> hash, ref_name |-> ref_name, caps |-> caps]

Advertisements ==
    { <<>>,
      << AdvLine(RCommit1, <<"refs/heads/", <<"a">>>>, Some(<<"report-status", "delete-refs">>)),
         AdvLine(RCommit2, <<"refs/heads/", <<"b">>>>, None) >>,
      << AdvLine(RCommit1, <<"refs/heads/", <<"a">>>>, Some(<<"report-status", "thin-pack">>)) >>,
      << AdvLine(RCommit1, <<"refs/heads/", <<"a">>>>, Some(<<"delete-refs">>)) >>,
      << AdvLine(Zero, <<"capabilities^{}">>, Some(<<"report-status">>)) >> }

\* and the report that follows the pack
Reports ==
    { <<>>,
      << <<"unpack ok">>, <<"ok refs/heads/", <<"a">>>> >>,
      << <<"unpack ok">>, <<"ok refs/heads/", <<"a">>>>, <<"ok refs/heads/", <<"b">>>> >>,
      << <<"unpack ok">>, <<"ng refs/heads/", <<"a">>, "rejected">> >>,
      << <<"unpack", "index-pack failed">>, <<"ok refs/heads/", <<"a">>>> >>,
      << <<"unpack ok">> >> }

UpdatedHeads ==
    { << <<<<"a">>, head>> >>,
      << <<<<"a">>, RCommit2>> >>,
      << <<<<"b">>, head>>, <<<<"a">>, RCommit1>> >> }

\* The last call staged a file at a path that named no entry before it
StagedFresh ==
    /\ last.op = "stage" /\ last.result = "Ok" /\ last.data # None
    /\ ~NamesEntry(pre, last.path)

\* Buffers: "abcdefghij", and two of lowercase letters that are longer
\* than the sizes a COPY instruction gets for a size operand of zero
MediumLen == 5000

BigLen == 65537

Abc == <<97, 98, 99, 100, 101, 102, 103, 104, 105, 106>>

Letters(n) == SubSeq([i \in 1..n |-> 97 + (i % 26)], 1, n)

Sources == {Abc, Letters(MediumLen), Letters(BigLen)}

\* Deltas are written from their instructions as git writes them.  An
\* instruction is [kind |-> "copy", offset, size, zero_byte] or
\* [kind |-> "insert", data]; a copy of DocumentedCopySize bytes is
\* written with a size operand of zero, with no size byte or, where
\* zero_byte holds, with one size byte that is zero.
DocumentedCopySize == 2 ^ 16

RECURSIVE SizeBytes(_)
SizeBytes(n) == IF n < 128 THEN <<n>> ELSE <<128 + (n % 128)>> \o SizeBytes(n \div 128)

OperandByte(value, k) == (value \div (256 ^ k)) % 256

RECURSIVE OperandFlags(_, _, _, _)
OperandFlags(value, count, bit0, k) ==
    IF k = count THEN 0
    ELSE (IF OperandByte(value, k) # 0 THEN 2 ^ (bit0 + k) ELSE 0)
         + OperandFlags(value, count, bit0, k + 1)

OperandBytes(value, count) ==
    LET NonZero(b) == b # 0
    IN  SelectSeq([k \in 1..count |-> OperandByte(value, k - 1)], NonZero)

SizeOperand(c) == IF c.size = DocumentedCopySize THEN 0 ELSE c.size

CopyBytes(c) ==
    <<BYTE_MSB + OperandFlags(c.offset, 4, 0, 0)
               + (IF c.zero_byte THEN 16 ELSE OperandFlags(SizeOperand(c), 3, 4, 0))>>
    \o OperandBytes(c.offset, 4)
    \o (IF c.zero_byte THEN <<0>> ELSE OperandBytes(SizeOperand(c), 3))

InstrBytes(c) == IF c.kind = "copy" THEN CopyBytes(c) ELSE <<Len(c.data)>> \o c.data

RECURSIVE ProgBytes(_)
ProgBytes(prog) ==
    IF prog = <<>> THEN <<>> ELSE InstrBytes(Head(prog)) \o ProgBytes(Tail(prog))

CopyOf(offset, size) ==
    [kind |-> "copy", offset |-> offset, size |-> size, zero_byte |-> FALSE]

InsertOf(data) == [kind |-> "insert", data |-> data]

\* copy [2..6), insert "XY", copy [0..2), two copies with a size operand
\* of zero, an insert of no byte, and a copy of [8..12)
InstrPool ==
    { CopyOf(2, 4), InsertOf(<<88, 89>>), CopyOf(0, 2),
      CopyOf(0, DocumentedCopySize),
      [kind |-> "copy", offset |-> 1, size |-> DocumentedCopySize, zero_byte |-> TRUE],
      InsertOf(<<>>), CopyOf(8, 4) }

MaxInstrs == 3

Programs == UNION {[1..k -> InstrPool] : k \in 0..MaxInstrs}

\* What the instructions say the target is, and how long
InstrLen(c) == IF c.kind = "copy" THEN c.size ELSE Len(c.data)

RECURSIVE TargetLen(_)
TargetLen(prog) == IF prog = <<>> THEN 0 ELSE InstrLen(Head(prog)) + TargetLen(Tail(prog))

InRange(prog, src) ==
    \A i \in 1..Len(prog) :
        prog[i].kind = "copy" => prog[i].offset + prog[i].size <= Len(src)

RECURSIVE Target(_, _)
Target(prog, src) ==
    IF prog = <<>> THEN <<>>
    ELSE (IF Head(prog).kind = "copy"
          THEN SubSeq(src, Head(prog).offset + 1, Head(prog).offset + Head(prog).size)
          ELSE Head(prog).data)
         \o Target(Tail(prog), src)

\* A delta may lose its last byte where that byte is an operand or a
\* literal of its last instruction
CanTruncate(prog) == prog # <<>> /\ Len(InstrBytes(prog[Len(prog)])) > 1

DeltaOf(src, prog, declared, truncated) ==
    SizeBytes(Len(src)) \o SizeBytes(declared)
    \o (IF truncated THEN SubSeq(ProgBytes(prog), 1, Len(ProgBytes(prog)) - 1)
        ELSE ProgBytes(prog))

\* Packs with deltas.  The deltas are that of "cdefXYab" on "abcdefghij",
\* one on "cdefXYab", a copy of [8..12) of "abcdefghij", an insert cut
\* short, and a copy with a size operand of zero on the medium buffer.
CdefXYab == <<99, 100, 101, 102, 88, 89, 97, 98>>

DeltaRecord(src, prog, truncated) ==
    <<"ref_delta", DeltaOf(src, prog, TargetLen(prog), truncated), Hash("blob", src)>>

DeltaCases ==
    { [src |-> Abc, prog |-> <<CopyOf(2, 4), InsertOf(<<88, 89>>), CopyOf(0, 2)>>,
       truncated |-> FALSE],
      [src |-> CdefXYab, prog |-> <<CopyOf(0, 4), InsertOf(<<90>>)>>, truncated |-> FALSE],
      [src |-> Abc, prog |-> <<CopyOf(8, 4)>>, truncated |-> FALSE],
      [src |-> Abc, prog |-> <<InsertOf(<<88, 89>>)>>, truncated |-> TRUE],
      [src |-> Letters(MediumLen), prog |-> <<CopyOf(0, DocumentedCopySize)>>,
       truncated |-> FALSE] }

RecordOf(c) == DeltaRecord(c.src, c.prog, c.truncated)

PackRecords ==
    {Hash("blob", Abc), Hash("blob", Letters(MediumLen))} \cup {RecordOf(c) : c \in DeltaCases}

MaxPackLen == 3

DeltaPacks == UNION {[1..k -> PackRecords] : k \in 1..MaxPackLen}

\* Size varints: a chain of continuation bytes, all of them with a group
\* of zero but the first and the last, and a last byte
MaxVarintLen == 12

VarintFirsts == {128, 176, 177}

VarintGroups == {0, 1, 127}

Varints ==
    { <<first>> \o [i \in 1..k |-> BYTE_MSB] \o <<BYTE_MSB + g, final>> :
        first \in VarintFirsts, k \in 0..(MaxVarintLen - 3),
        g \in VarintGroups, final \in VarintGroups }

Init ==
    /\ directories = NewRepository.directories
    /\ objects = NewRepository.objects
    /\ staged = NewRepository.staged
    /\ upstream_head = NewRepository.upstream_head
    /\ head = NewRepository.head
    /\ root = NewRepository.root
    /\ last = [op |-> "new", result |-> "Ok"]
    /\ pre = NewRepository
    /\ sent = <<>>
    /\ calls_left = MaxOps
    /\ NoProtocol

\* The same state, for the behaviours in which files are read back
InitRead ==
    /\ directories = NewRepository.directories
    /\ objects = NewRepository.objects
    /\ staged = NewRepository.staged
    /\ upstream_head = NewRepository.upstream_head
    /\ head = NewRepository.head
    /\ root = NewRepository.root
    /\ last = [op |-> "new", result |-> "Ok"]
    /\ pre = NewRepository
    /\ sent = <<>>
    /\ calls_left = MaxReadOps
    /\ NoProtocol

\* The same state, for the behaviours in which packs with deltas are
\* imported
MaxPackOps == 1

InitPack ==
    /\ directories = NewRepository.directories
    /\ objects = NewRepository.objects
    /\ staged = NewRepository.staged
    /\ upstream_head = NewRepository.upstream_head
    /\ head = NewRepository.head
    /\ root = NewRepository.root
    /\ last = [op |-> "new", result |-> "Ok"]
    /\ pre = NewRepository
    /\ sent = <<>>
    /\ calls_left = MaxPackOps
    /\ NoProtocol

\* The states in which reconstruct is given a source and a delta: the
\* delta declares the length of its target, or one more
InitDelta ==
    /\ directories = NewRepository.directories
    /\ objects = NewRepository.objects
    /\ staged = NewRepository.staged
    /\ upstream_head = NewRepository.upstream_head
    /\ head = NewRepository.head
    /\ root = NewRepository.root
    /\ \E src \in Sources : \E prog \in Programs : \E wrong \in 0..1 :
       \E truncated \in BOOLEAN : \E build \in Builds :
         /\ truncated => CanTruncate(prog)
         /\ last = [op |-> "delta", result |-> "input", src |-> src, prog |-> prog,
                    declared |-> TargetLen(prog) + wrong, truncated |-> truncated,
                    build |-> build,
                    delta |-> DeltaOf(src, prog, TargetLen(prog) + wrong, truncated)]
    /\ pre = NewRepository
    /\ sent = <<>>
    /\ calls_left = 1
    /\ NoProtocol

\* The states in which a size varint is to be read
InitVarint ==
    /\ directories = NewRepository.directories
    /\ objects = NewRepository.objects
    /\ staged = NewRepository.staged
    /\ upstream_head = NewRepository.upstream_head
    /\ head = NewRepository.head
    /\ root = NewRepository.root
    /\ \E bytes \in Varints : \E build \in Builds :
         last = [op |-> "varint", result |-> "input", buffer |-> bytes, build |-> build]
    /\ pre = NewRepository
    /\ sent = <<>>
    /\ calls_left = 1
    /\ NoProtocol

\* The same state, for the behaviours with a remote to clone from
InitClone ==
    /\ directories = NewRepository.directories
    /\ objects = NewRepository.objects
    /\ staged = NewRepository.staged
    /\ upstream_head = NewRepository.upstream_head
    /\ head = NewRepository.head
    /\ root = NewRepository.root
    /\ last = [op |-> "new", result |-> "Ok"]
    /\ pre = NewRepository
    /\ sent = <<>>
    /\ calls_left = MaxCloneOps
    /\ NoProtocol

\* and for the behaviours with a remote to push to
InitPush ==
    /\ directories = NewRepository.directories
    /\ objects = NewRepository.objects
    /\ staged = NewRepository.staged
    /\ upstream_head = NewRepository.upstream_head
    /\ head = NewRepository.head
    /\ root = NewRepository.root
    /\ last = [op |-> "new", result |-> "Ok"]
    /\ pre = NewRepository
    /\ sent = <<>>
    /\ calls_left = MaxPushOps
    /\ NoProtocol

DoStage ==
    /\ CanCall
    /\ \E path \in Paths, data \in StageData :
         LET s == Stage(Repo, path, data)
         IN  /\ SetRepo(s.r)
             /\ last' = [op |-> "stage", result |-> s.result, path |-> path, data |-> data,
                         \* this call stages the deletion of the path that the
                         \* call before it staged as a new file
                         undoes_fresh |-> /\ data = None
                                          /\ StagedFresh
                                          /\ last.path = path]
    /\ sent' = <<>>
    /\ Called

DoCommit ==
    /\ CanCall
    /\ \E identities \in CommitIdentities :
         LET c == Commit(Repo, "m", identities[1], identities[2], 0)
         IN  /\ SetRepo(c.r)
             /\ last' = [op |-> "commit", result |-> c.result,
                         author |-> identities[1], committer |-> identities[2],
                         \* the call before this one, when it was a stage
                         after |-> IF last.op = "stage"
                                   THEN Some([path |-> last.path, data |-> last.data,
                                              result |-> last.result])
                                   ELSE None]
    /\ sent' = <<>>
    /\ Called

DoDiscardCommits ==
    /\ CanCall
    /\ SetRepo(DiscardCommits(Repo))
    /\ last' = [op |-> "discard_commits", result |-> "Ok"]
    /\ sent' = <<>>
    /\ Called

DoDiscardChanges ==
    /\ CanCall
    /\ SetRepo(DiscardChanges(Repo))
    /\ last' = [op |-> "discard_changes", result |-> "Ok"]
    /\ sent' = <<>>
    /\ Called

DoDiscard ==
    /\ CanCall
    /\ SetRepo(Discard(Repo))
    /\ last' = [op |-> "discard", result |-> "Ok"]
    /\ sent' = <<>>
    /\ Called

DoImportPackfile ==
    /\ CanCall
    /\ \E pack \in Packs : \E new_head \in PackHeads(pack) : \E build \in Builds :
         LET f == ImportPackfile(Repo, pack, new_head, build)
         IN  /\ SetRepo(f.r)
             /\ last' = [op |-> "import_packfile", result |-> f.result,
                         new_head |-> new_head]
    /\ sent' = <<>>
    /\ Called

\* import_packfile of a pack with deltas, and no new head
DoImportDeltas ==
    /\ CanCall
    /\ \E pack \in DeltaPacks : \E build \in Builds :
         LET f == ImportPackfile(Repo, pack, None, build)
         IN  /\ SetRepo(f.r)
             /\ last' = [op |-> "import_packfile", result |-> f.result,
                         new_head |-> None, pack |-> pack, build |-> build]
    /\ sent' = <<>>
    /\ Called

\* reconstruct, on the delta and the source the initial state holds
DoReconstruct ==
    /\ CanCall
    /\ last.op = "delta"
    /\ LET f == Reconstruct(last.delta, last.src, last.build)
       IN  last' = [op |-> "reconstruct", result |-> f.result, dst |-> f.dst,
                    delta |-> last.delta, src |-> last.src, build |-> last.build,
                    prog |-> last.prog, declared |-> last.declared,
                    truncated |-> last.truncated]
    /\ SetRepo(Repo)
    /\ sent' = <<>>
    /\ Called

\* read_hdr_size at the start of the buffer the initial state holds
DoReadHdrSize ==
    /\ CanCall
    /\ last.op = "varint"
    /\ LET f == ReadHdrSize(last.buffer, 0, last.build)
       IN  last' = [op |-> "read_hdr_size", result |-> f.result, size |-> f.size,
                    i |-> f.i, buffer |-> last.buffer, build |-> last.build]
    /\ SetRepo(Repo)
    /\ sent' = <<>>
    /\ Called

\* read_size on a reader whose buffer is the one the initial state holds
DoReadSize ==
    /\ CanCall
    /\ last.op = "varint"
    /\ LET f == ReadSize(last.buffer, last.build)
       IN  last' = [op |-> "read_size", result |-> f.result, size |-> f.size,
                    i |-> f.i, buffer |-> last.buffer, build |-> last.build]
    /\ SetRepo(Repo)
    /\ sent' = <<>>
    /\ Called

DoClone ==
    /\ CanCall
    /\ \E remote \in Remotes : \E reference \in References : \E depth \in Depths :
      \E build \in Builds :
         LET c == Clone(Repo, remote, reference, depth, build)
         IN  /\ SetRepo(c.r)
             /\ sent' = c.sent
             /\ last' = [op |-> "clone", result |-> c.result, remote |-> remote,
                         reference |-> reference, depth |-> depth]
    /\ Called

DoPush ==
    /\ CanCall
    /\ \E advertisement \in Advertisements : \E updated_heads \in UpdatedHeads :
       \E force_push \in BOOLEAN : \E report \in Reports :
         LET p == Push(Repo, advertisement, updated_heads, force_push, report)
         IN  \* the remote reports only on commands it was sent
             /\ p.sent = <<>> => report = <<>>
             /\ SetRepo(p.r)
             /\ sent' = p.sent
             /\ last' = [op |-> "push", result |-> p.result,
                         advertisement |-> advertisement,
                         updated_heads |-> updated_heads,
                         force_push |-> force_push, report |-> report]
    /\ Called

DoReadFile ==
    /\ CanCall
    /\ \E path \in Paths :
         LET f == ReadFile(Repo, path)
         IN  /\ SetRepo(f.r)
             /\ last' = [op |-> "read_file", result |-> f.result[1], path |-> path,
                         content |-> IF f.result[1] = "Ok" THEN Some(f.result[2]) ELSE None,
                         \* the call before this one, when it was a stage or
                         \* a commit
                         after |-> IF last.op \in {"stage", "commit"}
                                   THEN Some(last) ELSE None]
    /\ sent' = <<>>
    /\ Called

\* The packet lines a remote sends: the three control packets, a header
\* that declares three bytes, and data lines, two of which hold bytes that
\* read as the start of a header or as a whole flush packet
HexLen(n) ==
    <<HexDigit(n \div 4096), HexDigit((n \div 256) % 16), HexDigit((n \div 16) % 16),
      HexDigit(n % 16)>>

FlushPacket == [kind |-> "flush", declared |-> 0, payload |-> <<>>]

DelimiterPacket == [kind |-> "delimiter", declared |-> 1, payload |-> <<>>]

ResponseEndPacket == [kind |-> "response-end", declared |-> 2, payload |-> <<>>]

ThreePacket == [kind |-> "three", declared |-> 3, payload |-> <<>>]

DataLine(payload) == [kind |-> "data", declared |-> 4 + Len(payload), payload |-> payload]

ControlPackets == {FlushPacket, DelimiterPacket, ResponseEndPacket}

Frames ==
    ControlPackets \cup {ThreePacket}
        \cup {DataLine(payload) : payload \in {<<>>, <<120>>, <<48, 48>>, <<48, 48, 48, 48>>}}

WellFormedFrames == Frames \ {ThreePacket}

MaxFrames == 2

FrameLists == UNION {[1..n -> Frames] : n \in 0..MaxFrames}

Encode(frame) == HexLen(frame.declared) \o frame.payload

RECURSIVE EncodeAll(_)
EncodeAll(frames) ==
    IF frames = <<>> THEN <<>> ELSE Encode(Head(frames)) \o EncodeAll(Tail(frames))

\* read_line is called at most this many times in a behaviour
MaxLines == 3

\* A connection on which the remote is about to send a list of packet lines
InitProtocol ==
    /\ directories = NewRepository.directories
    /\ objects = NewRepository.objects
    /\ staged = NewRepository.staged
    /\ upstream_head = NewRepository.upstream_head
    /\ head = NewRepository.head
    /\ root = NewRepository.root
    /\ \E frames \in FrameLists :
         /\ run = EncodeAll(frames)
         /\ last = [op |-> "connect", result |-> "Ok", line |-> <<>>, returned |-> <<>>,
                    frames |-> frames, splits |-> 0, timed_out |-> FALSE]
    /\ receive_buffer = <<>>
    /\ to_skip = 0
    /\ pc = "idle"
    /\ buffer = <<>>
    /\ out = <<>>
    /\ pre = NewRepository
    /\ sent = <<>>
    /\ calls_left = MaxLines

\* A Data event that ends after the given number of bytes of the stream ends
\* inside the header of a line
InsideHeader(frames, offset) ==
    \E i \in 1..Len(frames) :
        /\ Len(EncodeAll(SubSeq(frames, 1, i - 1))) < offset
        /\ offset < Len(EncodeAll(SubSeq(frames, 1, i - 1))) + 4

\* read_line either returns, or goes on to poll the transport; seen is the
\* record of the call with what the poll before this turn has added to it
ReadLineTurn(received, seen) ==
    /\ receive_buffer' = received
    /\ IF ReadLineCheck(received).done
       THEN /\ to_skip' = ReadLineCheck(received).to_skip
            /\ pc' = "idle"
            /\ last' = [seen EXCEPT !.op = "read_line",
                                    !.result = ReadLineCheck(received).result,
                                    !.line = ReadLineCheck(received).line,
                                    !.returned = Append(@, <<ReadLineCheck(received).result,
                                                             ReadLineCheck(received).line>>)]
       ELSE /\ to_skip' = 0
            /\ pc' = "poll"
            /\ last' = seen

\* read_line fails on what the transport reports
ReadLineFails(result) ==
    /\ receive_buffer' = receive_buffer
    /\ to_skip' = 0
    /\ pc' = "idle"
    /\ last' = [last EXCEPT !.op = "read_line", !.result = result, !.line = <<>>,
                            !.returned = IF result = "panic" THEN @
                                         ELSE Append(@, <<result, <<>>>>)]

\* What read_line does on RunEvent::None
OnPollNoneFails == "GitProtocolError"

OnPollNone == "continue"

ProtocolFrame == UNCHANGED <<repoVars, pre, sent, readerVars>>

\* A call of read_line up to its first poll
DoReadLine ==
    /\ pc = "idle"
    /\ calls_left > 0
    /\ last.result # "panic"
    /\ ReadLineTurn(Drain(receive_buffer, to_skip), [last EXCEPT !.timed_out = FALSE])
    /\ run' = run
    /\ calls_left' = calls_left - 1
    /\ ProtocolFrame

\* The poll times out with RunEvent::None
DoPollNone ==
    /\ pc = "poll"
    /\ IF OnPollNone = "continue"
       THEN ReadLineTurn(receive_buffer, [last EXCEPT !.timed_out = TRUE])
       ELSE ReadLineFails(OnPollNone)
    /\ run' = run
    /\ UNCHANGED calls_left
    /\ ProtocolFrame

\* The poll yields RunEvent::Data with some of the bytes the remote has yet
\* to deliver
DoPollData ==
    /\ pc = "poll"
    /\ \E n \in 1..Len(run) :
         /\ ReadLineTurn(receive_buffer \o SubSeq(run, 1, n),
                         [last EXCEPT !.splits =
                             IF InsideHeader(last.frames, Len(EncodeAll(last.frames)) - Len(run) + n)
                             THEN @ + 1 ELSE @])
         /\ run' = SubSeq(run, n + 1, Len(run))
    /\ UNCHANGED calls_left
    /\ ProtocolFrame

\* The poll yields RunEvent::ExtDataStderr with a text that is UTF-8, or with
\* any bytes while warnings are not logged: the text is logged at most
DoPollStderr ==
    /\ pc = "poll"
    /\ ReadLineTurn(receive_buffer, last)
    /\ run' = run
    /\ UNCHANGED calls_left
    /\ ProtocolFrame

\* The poll yields RunEvent::ExtDataStderr with bytes that are not UTF-8
\* while warnings are logged: the unwrap panics
DoPollStderrPanics ==
    /\ pc = "poll"
    /\ ReadLineFails("panic")
    /\ run' = run
    /\ UNCHANGED calls_left
    /\ ProtocolFrame

\* The poll yields any other event once the remote has nothing more to send
DoPollStopped ==
    /\ pc = "poll"
    /\ run = <<>>
    /\ ReadLineFails("GitProtocolError")
    /\ run' = run
    /\ UNCHANGED calls_left
    /\ ProtocolFrame

\* The side-band lines a remote sends in answer to a fetch: packfile bytes,
\* progress and error texts (one progress and one error text not UTF-8),
\* lines with the tags 0 and 4, a line with no tag, and a flush packet
SidebandFrames ==
    {DataLine(payload) : payload \in {<<1, 80>>, <<1, 75>>, <<1>>, <<2, 104>>, <<2, 255>>,
                                      <<3, 101>>, <<3, 255>>, <<0, 80>>, <<4, 80>>, <<>>}}
        \cup {FlushPacket}

MaxSidebandLines == 2

SidebandLists == UNION {[1..n -> SidebandFrames] : n \in 0..MaxSidebandLines}

\* A packfile reader on a connection on which the remote is about to send
\* side-band lines
InitSideband ==
    /\ directories = NewRepository.directories
    /\ objects = NewRepository.objects
    /\ staged = NewRepository.staged
    /\ upstream_head = NewRepository.upstream_head
    /\ head = NewRepository.head
    /\ root = NewRepository.root
    /\ \E frames \in SidebandLists :
         /\ run = EncodeAll(frames)
         /\ last = [op |-> "connect", result |-> "Ok", line |-> <<>>, logs |-> FALSE,
                    before |-> [buffer |-> <<>>, out |-> <<>>], frames |-> frames]
    /\ receive_buffer = <<>>
    /\ to_skip = 0
    /\ pc = "idle"
    /\ buffer = <<>>
    /\ out = <<>>
    /\ pre = NewRepository
    /\ sent = <<>>
    /\ calls_left = MaxSidebandLines + 1

\* PackfileReader::read_line: the protocol's read_line run to its return on
\* a transport that yields Data events only, n bytes in all, and the line
\* handled by its tag.  With every byte delivered and no line complete, the
\* transport stops and the protocol's read_line fails.
DoPackfileReadLine ==
    /\ pc = "idle"
    /\ calls_left > 0
    /\ last.result = "Ok"
    /\ \E logs \in BOOLEAN : \E n \in 0..Len(run) :
         LET received == Drain(receive_buffer, to_skip) \o SubSeq(run, 1, n)
             check == ReadLineCheck(received)
             line == IF check.done THEN check ELSE [check EXCEPT !.result = "GitProtocolError"]
             reader == SidebandLine([buffer |-> buffer, out |-> out], line.result, line.line, logs)
         IN  /\ check.done \/ n = Len(run)
             /\ n > 0 => ~ReadLineCheck(Drain(receive_buffer, to_skip)).done
             /\ receive_buffer' = received
             /\ run' = SubSeq(run, n + 1, Len(run))
             /\ to_skip' = line.to_skip
             /\ buffer' = reader.buffer
             /\ out' = reader.out
             /\ last' = [op |-> "packfile_read_line", result |-> reader.result,
                         line |-> IF line.result = "Some" THEN Some(line.line) ELSE None,
                         logs |-> logs, before |-> [buffer |-> buffer, out |-> out],
                         frames |-> last.frames]
    /\ pc' = "idle"
    /\ calls_left' = calls_left - 1
    /\ UNCHANGED <<repoVars, pre, sent>>

\* Identifiers: all bytes zero, all bytes 0xff, and two mixed ones
Identifiers ==
    {[k \in 1..20 |-> 0], [k \in 1..20 |-> 255], [k \in 1..20 |-> (k * 13) % 256],
     [k \in 1..20 |-> (171 + k * 16) % 256]}

\* Bytes put in place of a digit: '+', '-', ' ', 'g', 'G', 'x', and the
\* digits 'A', 'F' and '0'
Substitutes == {43, 45, 32, 103, 71, 120, 65, 70, 48}

\* Texts: the text of an identifier with one byte replaced, with two bytes
\* replaced by the two bytes of a letter that is not ASCII, with its end cut
\* or with a digit added, and the empty text
HexTexts ==
    UNION {
        {[ToHex(id) EXCEPT ![i] = c] : i \in 1..40, c \in Substitutes}
            \cup {[ToHex(id) EXCEPT ![i] = 195, ![i + 1] = 169] : i \in 1..39}
            \cup {SubSeq(ToHex(id), 1, n) : n \in {0, 38, 39}}
            \cup {ToHex(id) \o <<48>>, ToHex(id) \o <<48, 48>>}
        : id \in Identifiers}

\* An identifier to be written as text, or a text to be parsed
InitHex ==
    /\ directories = NewRepository.directories
    /\ objects = NewRepository.objects
    /\ staged = NewRepository.staged
    /\ upstream_head = NewRepository.upstream_head
    /\ head = NewRepository.head
    /\ root = NewRepository.root
    /\ \/ \E id \in Identifiers :
            last = [op |-> "identifier", result |-> "input", id |-> Some(id), hex |-> <<>>,
                    parsed |-> None]
       \/ \E hex \in HexTexts :
            last = [op |-> "text", result |-> "input", id |-> None, hex |-> hex,
                    parsed |-> None]
    /\ pre = NewRepository
    /\ sent = <<>>
    /\ calls_left = 2
    /\ NoProtocol

\* The identifier the initial state holds, written with Display
DoDisplay ==
    /\ CanCall
    /\ last.op = "identifier"
    /\ last' = [last EXCEPT !.op = "display", !.result = "Ok", !.hex = ToHex(last.id[1])]
    /\ SetRepo(Repo)
    /\ sent' = <<>>
    /\ Called

\* from_hex on the text the state holds
DoFromHex ==
    /\ CanCall
    /\ last.op \in {"display", "text"}
    /\ last' = [last EXCEPT !.op = "from_hex",
                            !.result = IF FromHex(last.hex) = None THEN "None" ELSE "Some",
                            !.parsed = FromHex(last.hex)]
    /\ SetRepo(Repo)
    /\ sent' = <<>>
    /\ Called

\* Names: a, b, ab, B, "a b", and a name with a NUL between a and b
TreeNames == {<<97>>, <<98>>, <<97, 98>>, <<66>>, <<97, 32, 98>>, <<97, 0, 98>>}

TreeHashes == {[k \in 1..20 |-> 0], [k \in 1..20 |-> (171 + k * 16) % 256]}

TreeModes == {"Directory", "RegularFile", "ExecutableFile"}

TreeEntries == TreeNames \X TreeHashes \X TreeModes

MaxEntries == 2

InsertionLists == UNION {[1..n -> TreeEntries] : n \in 0..MaxEntries}

\* A list of entries to be inserted in a new directory
InitTree ==
    /\ directories = NewRepository.directories
    /\ objects = NewRepository.objects
    /\ staged = NewRepository.staged
    /\ upstream_head = NewRepository.upstream_head
    /\ head = NewRepository.head
    /\ root = NewRepository.root
    /\ \E insertions \in InsertionLists :
         last = [op |-> "insertions", result |-> "input", insertions |-> insertions,
                 dir |-> <<>>, tree |-> <<>>, items |-> <<>>]
    /\ pre = NewRepository
    /\ sent = <<>>
    /\ calls_left = 2
    /\ NoProtocol

\* The directory made of the insertions, and serialize_directory on it
DoSerializeDirectory ==
    /\ CanCall
    /\ last.op = "insertions"
    /\ last' = [last EXCEPT !.op = "serialize_directory", !.result = "Ok",
                            !.dir = LiteMapFromInsertions(last.insertions, <<>>),
                            !.tree = SerializeDirectoryBytes(
                                         LiteMapFromInsertions(last.insertions, <<>>))]
    /\ SetRepo(Repo)
    /\ sent' = <<>>
    /\ Called

\* A TreeIter run over the tree object to its end
DoTreeIter ==
    /\ CanCall
    /\ last.op = "serialize_directory"
    /\ last' = [last EXCEPT !.op = "tree_iter",
                            !.result = TreeIterAll(last.tree, <<>>).result,
                            !.items = TreeIterAll(last.tree, <<>>).items]
    /\ SetRepo(Repo)
    /\ sent' = <<>>
    /\ Called

Next ==
    \/ DoStage
    \/ DoCommit
    \/ DoDiscardCommits
    \/ DoDiscardChanges
    \/ DoDiscard
    \/ DoImportPackfile

Spec == Init /\ [][Next]_vars

\* The repository used without any remote: no import, clone or push
NextLocal ==
    \/ DoStage
    \/ DoCommit
    \/ DoDiscardCommits
    \/ DoDiscardChanges
    \/ DoDiscard

SpecLocal == Init /\ [][NextLocal]_vars

\* The repository with its files read back
NextRead ==
    \/ DoStage
    \/ DoCommit
    \/ DoDiscardChanges
    \/ DoImportPackfile
    \/ DoReadFile

SpecRead == InitRead /\ [][NextRead]_vars

\* The repository on which files are staged and nothing else is done
NextStage == DoStage

SpecStage == Init /\ [][NextStage]_vars

\* The repository that imports packs with deltas
NextPack == DoImportDeltas

SpecPack == InitPack /\ [][NextPack]_vars

\* reconstruct as a function of a source and a delta
NextDelta == DoReconstruct

SpecDelta == InitDelta /\ [][NextDelta]_vars

\* The two readers of size varints as functions of a buffer
NextVarint ==
    \/ DoReadHdrSize
    \/ DoReadSize

SpecVarint == InitVarint /\ [][NextVarint]_vars

\* The repository with a remote to clone from
NextClone ==
    \/ DoStage
    \/ DoCommit
    \/ DoDiscardCommits
    \/ DoDiscardChanges
    \/ DoDiscard
    \/ DoImportPackfile
    \/ DoClone

SpecClone == InitClone /\ [][NextClone]_vars

\* The repository with a remote to push to
NextPush ==
    \/ DoStage
    \/ DoCommit
    \/ DoDiscardCommits
    \/ DoImportPackfile
    \/ DoPush

SpecPush == InitPush /\ [][NextPush]_vars

\* A connection read line by line
NextProtocol ==
    \/ DoReadLine
    \/ DoPollNone
    \/ DoPollData
    \/ DoPollStderr
    \/ DoPollStderrPanics
    \/ DoPollStopped

SpecProtocol == InitProtocol /\ [][NextProtocol]_vars

\* A connection whose transport delivers: while bytes are on their way a
\* poll yields some of them sooner or later, and what the remote writes to
\* its standard error is text
NextProtocolFair ==
    \/ DoReadLine
    \/ DoPollNone
    \/ DoPollData
    \/ DoPollStderr
    \/ DoPollStopped

SpecProtocolFair ==
    /\ InitProtocol
    /\ [][NextProtocolFair]_vars
    /\ WF_vars(DoPollData)

\* A packfile reader pulling side-band lines
NextSideband == DoPackfileReadLine

SpecSideband == InitSideband /\ [][NextSideband]_vars

\* Identifiers written as text and texts parsed
NextHex ==
    \/ DoDisplay
    \/ DoFromHex

SpecHex == InitHex /\ [][NextHex]_vars

\* The character U+0000, which a string of the model cannot hold, as a
\* token of its own; CharByte gives it the byte 0
NulChar == "NUL"

\* Path strings given to stage: plain, with doubled, leading and trailing
\* slashes, with a NUL inside a name, and without any name
NamePaths ==
    { <<"a">>, <<"a", "/", "b">>, <<"/", "a", "/", "/", "b", "/">>,
      <<"a", NulChar, "b">>, <<"b", "/", NulChar>>, <<>>, <<"/">> }

MaxNameOps == 2

InitNames ==
    /\ directories = NewRepository.directories
    /\ objects = NewRepository.objects
    /\ staged = NewRepository.staged
    /\ upstream_head = NewRepository.upstream_head
    /\ head = NewRepository.head
    /\ root = NewRepository.root
    /\ last = [op |-> "new", result |-> "Ok"]
    /\ pre = NewRepository
    /\ sent = <<>>
    /\ calls_left = MaxNameOps
    /\ NoProtocol

DoStageNamed ==
    /\ CanCall
    /\ \E path \in NamePaths, data \in StageData :
         LET s == Stage(Repo, path, data)
         IN  /\ SetRepo(s.r)
             /\ last' = [op |-> "stage", result |-> s.result, path |-> path, data |-> data]
    /\ sent' = <<>>
    /\ Called

\* The repository on which files are staged under the names of NamePaths
NextNames == DoStageNamed

SpecNames == InitNames /\ [][NextNames]_vars

\* The objects a store given to pack is made of: two commits on one
\* history and a third whose tree is the tree of the first
RCommit3 == Hash("commit", <<RTreeA, <<RCommit1>>, <<GoodIdentity, GoodIdentity, 0, "third">>>>)

PackUniverse == {RCommit1, RTreeA, RBlob1, RCommit2, RTreeAB, RTreeB, RCommit3}

\* to_skip sets, with objects the stores hold and not
SkipSets == SUBSET {RCommit1, RTreeA, RBlob1, RTreeB}

\* heads_to_include: no head, one, two that share history or trees, one
\* head twice, and the zero hash
HeadLists ==
    { <<>>, << <<<<"a">>, Zero>> >> }
    \cup { << <<<<"a">>, h>> >> : h \in {RCommit1, RCommit2, RCommit3} }
    \cup { << <<<<"a">>, h1>>, <<<<"b">>, h2>> >> : h1, h2 \in {RCommit1, RCommit2, RCommit3} }

\* A repository whose main store holds any part of PackUniverse
InitPackWriter ==
    /\ directories = NewRepository.directories
    /\ \E held \in SUBSET PackUniverse : objects = [h \in held |-> Zero]
    /\ staged = NewRepository.staged
    /\ upstream_head = NewRepository.upstream_head
    /\ head = NewRepository.head
    /\ root = NewRepository.root
    /\ last = [op |-> "new", result |-> "Ok"]
    /\ pre = NewRepository
    /\ sent = <<>>
    /\ calls_left = 1
    /\ NoProtocol

\* Repository::pack: the number in the header and the records after it
DoPack ==
    /\ CanCall
    /\ \E skip \in SkipSets, heads_to_include \in HeadLists :
         last' = [op |-> "pack", result |-> "Ok",
                  to_skip |-> skip, heads_to_include |-> heads_to_include,
                  num_objects |-> PackNumObjects(Repo, skip, heads_to_include),
                  records |-> Pack(Repo, skip, heads_to_include)[2]]
    /\ SetRepo(Repo)
    /\ sent' = <<>>
    /\ Called

\* Packfiles written from a store, a to_skip set and a list of heads
NextPackWriter == DoPack

SpecPackWriter == InitPackWriter /\ [][NextPackWriter]_vars

\* The lengths of the buffers written to a sender
DataSizes == {1, 20, 63999, 64000, 64001, 128001}

MaxSenderWrites == 3

\* The calls of write_raw of one flush that may fail: none, or one of the
\* first four
FailAts == 0..4

\* A new PackfileSender on a channel nothing was written to
InitSender ==
    /\ directories = NewRepository.directories
    /\ objects = NewRepository.objects
    /\ staged = NewRepository.staged
    /\ upstream_head = NewRepository.upstream_head
    /\ head = NewRepository.head
    /\ root = NewRepository.root
    /\ last = [op |-> "new_sender", result |-> "Ok", sender |-> NewSender, written |-> 0]
    /\ pre = NewRepository
    /\ sent = <<>>
    /\ calls_left = MaxSenderWrites + 1
    /\ NoProtocol

\* write of a buffer of the next bytes of the caller's stream
DoSenderWrite ==
    /\ calls_left > 1
    /\ last.op \in {"new_sender", "write"}
    /\ \E size \in DataSizes, fail_at \in FailAts :
         LET w == SenderWrite(last.sender, sent,
                              << <<"data", <<>>, last.written, last.written + size>> >>,
                              fail_at)
         IN  /\ last' = [op |-> "write", result |-> w.result, sender |-> w.sender,
                         written |-> last.written + size]
             /\ sent' = w.channel
    /\ SetRepo(Repo)
    /\ Called

DoSenderFinish ==
    /\ calls_left > 0
    /\ last.op \in {"new_sender", "write"}
    /\ \E fail_at \in FailAts :
         LET f == SenderFinish(last.sender, sent, fail_at)
         IN  /\ last' = [op |-> "finish", result |-> f.result, sender |-> f.sender,
                         written |-> last.written]
             /\ sent' = f.channel
    /\ SetRepo(Repo)
    /\ Called

\* A PackfileSender written to and finished
NextSender ==
    \/ DoSenderWrite
    \/ DoSenderFinish

SpecSender == InitSender /\ [][NextSender]_vars

\* Directories serialized and read back
NextTree ==
    \/ DoSerializeDirectory
    \/ DoTreeIter

SpecTree == InitTree /\ [][NextTree]_vars

(***************************************************************************)
(* Properties                                                              *)
(***************************************************************************)
CommitOk == last.op = "commit" /\ last.result = "Ok"

\* C1: after every successful commit the tree named by the commit that
\* head refers to (get_commit_root(head)) equals root, root = None included.
C1_TreeOfHeadIsRoot == CommitOk => GetCommitRoot(objects, head) = root

\* One of the four strings has '<', '>' or a newline
InvalidIdentity(author, committer) ==
    \E string \in {author[1], author[2], committer[1], committer[2]} :
        {string[i] : i \in 1..Len(string)} \cap {"<", ">", "\n"} # {}

\* C12: commit with '<', '>' or a newline in a name or email of author or
\* committer returns InvalidObject and leaves head, root, both stores and
\* the directory cache (the whole repository) as they were.
C12_InvalidIdentityRejected ==
    (last.op = "commit" /\ InvalidIdentity(last.author, last.committer)) =>
        (last.result = "InvalidObject" /\ Repo = pre)

\* C12 witness: a commit whose committer email has a newline was refused
\* with staged changes waiting for promotion.
C12_Witness ==
    /\ last.op = "commit" /\ last.result = "InvalidObject"
    /\ last.committer = TwoLines
    /\ root # None /\ root # GetCommitRoot(objects, head)
    /\ DOMAIN staged # {}

\* C4: after any sequence of stage, commit, discard_commits and
\* discard_changes, no identifier is in both the scratch store and the
\* main store.
C4_ScratchDisjointFromMain == DOMAIN staged \cap DOMAIN objects = {}

\* C4 witness: a stage has just computed a blob identifier that the main
\* store already holds, and scratch does not hold it.
C4_Witness ==
    /\ last.op = "stage" /\ last.result = "Ok" /\ last.data # None
    /\ Has(objects, Hash("blob", last.data[1][1]))
    /\ ~Has(staged, Hash("blob", last.data[1][1]))
    /\ DOMAIN staged # {}

\* This step stages the deletion of the path of the last call
UnstagesIt ==
    /\ last'.op = "stage" /\ last'.result = "Ok"
    /\ last'.path = last.path /\ last'.data = None

C25_ParentIsPreviousHead ==
    CommitOk =>
        /\ ObjType(head) = "commit"
        /\ Has(objects, head)
        /\ CommitParents(Content(head)) = (IF pre.head # Zero THEN <<pre.head>> ELSE <<>>)
        /\ head # pre.head

\* C25 witness: a commit has been made on top of a commit
C25_Witness ==
    /\ CommitOk
    /\ pre.head # Zero
    /\ ObjType(pre.head) = "commit"
    /\ CommitParents(Content(head)) = <<pre.head>>

\* The tree hashes reachable from a tree hash, itself included
RECURSIVE DirsUnder(_, _)
DirsUnder(r, h) ==
    {h} \cup UNION { DirsUnder(r, DirOf(r, h)[n][1]) :
                       n \in {m \in DOMAIN DirOf(r, h) : DirOf(r, h)[m][2] = "Directory"} }

\* C26: no directory reachable from root is empty; where a deletion
\* empties the whole tree, root is None.
C26_NoEmptyDirectoryUnderRoot ==
    root # None => \A h \in DirsUnder(Repo, root[1]) : DOMAIN DirOf(Repo, h) # {}

\* C26 witness: the deletion of the only file of a subdirectory of a
\* root that held nothing else has left no root.
C26_Witness ==
    /\ last.op = "stage" /\ last.result = "Ok" /\ last.data = None
    /\ Len(PathAll(last.path)) = 2
    /\ pre.root # None
    /\ DOMAIN DirOf(pre, pre.root[1]) = {PathAll(last.path)[1]}
    /\ DirOf(pre, pre.root[1])[PathAll(last.path)[1]][2] = "Directory"
    /\ root = None

(***************************************************************************)
(* Properties of read_file                                                 *)
(***************************************************************************)
\* The last call is a read_file of the path that the stage before it, or
\* the stage before the commit before it, was given with success
ReadAfterStage ==
    /\ last.op = "read_file" /\ last.after # None
    /\ last.after[1].op = "stage" /\ last.after[1].result = "Ok"
    /\ last.after[1].path = last.path

ReadAfterStageAndCommit ==
    /\ last.op = "read_file" /\ last.after # None
    /\ last.after[1].op = "commit" /\ last.after[1].result = "Ok"
    /\ last.after[1].after # None
    /\ last.after[1].after[1].result = "Ok"
    /\ last.after[1].after[1].path = last.path

\* C13: read_file(p) right after a successful stage(p, Some((data, type)))
\* returns data, and still does after a successful commit that follows
\* the stage; right after a successful stage(p, None) it returns PathError.
C13_ReadFileReturnsStaged ==
    /\ ReadAfterStage =>
          IF last.after[1].data # None
          THEN last.result = "Ok" /\ last.content = Some(last.after[1].data[1][1])
          ELSE last.result = "PathError"
    /\ (ReadAfterStageAndCommit /\ last.after[1].after[1].data # None) =>
          (last.result = "Ok" /\ last.content = Some(last.after[1].after[1].data[1][1]))

\* C13 witness: a file staged in a subdirectory and committed has been
\* read back from the main store.
C13_Witness ==
    /\ ReadAfterStageAndCommit
    /\ last.after[1].after[1].data # None
    /\ Len(PathAll(last.path)) = 2
    /\ last.result = "Ok"
    /\ Has(objects, Hash("blob", last.content[1]))
    /\ ~Has(staged, Hash("blob", last.content[1]))

(***************************************************************************)
(* Properties of clone                                                     *)
(***************************************************************************)
CloneCalled == last.op = "clone"

\* The workspace is clean as the document defines it:
\* head == upstream-head and (root == None or root == tree-of(head))
CleanAsDocumented(r) ==
    /\ r.head = r.upstream_head
    /\ (r.root = None \/ r.root = GetCommitRoot(r.objects, r.head))

\* head differs from upstream_head, or head names a commit of the main
\* store whose tree is not root
HeadMovedOrTreeDiffers(r) ==
    \/ r.upstream_head # r.head
    \/ /\ GetAs(r.objects, r.head, "commit") # None
       /\ Some(CommitTree(GetAs(r.objects, r.head, "commit")[1])) # r.root

C10_NoSuchReferenceLeavesRepository ==
    (/\ CloneCalled
     /\ last.reference[1] # "Commit"
     /\ (\A i \in 1..Len(last.remote.refs) :
            ~RefMatches(last.remote.refs[i][2], last.reference))
     /\ CleanAsDocumented(pre)
     /\ ~HeadMovedOrTreeDiffers(pre))
    => (last.result = "NoSuchReference" /\ Repo = pre)

\* No capability line "fetch=..." of the remote lists shallow
OmitsShallow(caps) ==
    \A i \in 1..Len(caps) :
        caps[i][1] = "fetch" => \A j \in 1..Len(caps[i][2]) : caps[i][2][j] # "shallow"

\* The reference is a commit hash, or a line of the remote's ls-refs
\* answer names it
Resolves(remote, reference) ==
    \/ reference[1] = "Commit"
    \/ \E i \in 1..Len(remote.refs) : RefMatches(remote.refs[i][2], reference)

C30_CloneInstallsResolvedCommit ==
    (CloneCalled /\ last.result = "Ok") =>
        /\ head = CloneHead(last.remote.refs, last.reference)
        /\ upstream_head = head
        /\ head # Zero
        /\ GetAs(objects, head, "commit") # None
        /\ root = Some(CommitTree(GetAs(objects, head, "commit")[1]))
        /\ CloneClean(Repo)
        /\ \A remote \in Remotes : \A reference \in References : \A depth \in Depths :
           \A build \in Builds :
              Clone(Repo, remote, reference, depth, build).result # "DirtyWorkspace"

\* C30 witness: a branch has been cloned into a repository that held
\* another commit, with files staged before the call
C30_Witness ==
    /\ CloneCalled /\ last.result = "Ok"
    /\ last.reference[1] = "Branch"
    /\ pre.head # Zero /\ pre.head # head
    /\ head = RCommit1
    /\ root = Some(RTreeA)

(***************************************************************************)
(* Properties of push                                                      *)
(***************************************************************************)
PushCalled == last.op = "push"

PushOk == PushCalled /\ last.result = "Ok"

\* The names of updated_heads
TargetNames == {last.updated_heads[i][1] : i \in 1..Len(last.updated_heads)}

\* The update commands among what the call wrote: <<old, new, name, caps>>
CommandsSent == {sent[k][2] : k \in {j \in 1..Len(sent) : sent[j][1] = "line"}}

\* C5: after a successful push, upstream_head equals head.
C5_PushSetsUpstreamToHead == PushOk => upstream_head = head

\* C5 witness: a push has succeeded on a repository whose head was ahead
\* of upstream_head.
C5_Witness == PushOk /\ pre.upstream_head # pre.head /\ sent # <<>>

\* C6: after a successful push, upstream_head is one of the new hashes
\* sent in an update command whose name the remote acknowledged.
C6_UpstreamIsAnAcknowledgedTip ==
    PushOk =>
        \E c \in CommandsSent :
            /\ c[2] = upstream_head
            /\ \E i \in 2..Len(last.report) : last.report[i] = <<"ok refs/heads/", c[3]>>

\* The report is "unpack ok" followed by ok lines only, one at least for
\* every name
ReportAcknowledges(report, names) ==
    /\ report # <<>>
    /\ report[1] = <<"unpack ok">>
    /\ \A i \in 2..Len(report) : Len(report[i]) = 2 /\ report[i][1] = "ok refs/heads/"
    /\ \A n \in names : \E i \in 2..Len(report) : report[i] = <<"ok refs/heads/", n>>

\* C7: a push that has sent its commands returns Ok only when the report
\* is "unpack ok" followed by ok lines that name every target; with any
\* other report it returns GitProtocolError and the repository is as it
\* was before the call.
C7_PushOkOnlyOnFullReport ==
    (PushCalled /\ sent # <<>>) =>
        IF ReportAcknowledges(last.report, TargetNames)
        THEN last.result = "Ok"
        ELSE last.result = "GitProtocolError" /\ Repo = pre

\* C7 witness: the remote answered "unpack ok" and acknowledged one of two
\* targets; the push of a repository whose head is ahead of upstream_head
\* has returned GitProtocolError.
C7_Witness ==
    /\ PushCalled /\ last.result = "GitProtocolError"
    /\ Cardinality(TargetNames) = 2
    /\ Len(last.report) = 2 /\ last.report[1] = <<"unpack ok">>
    /\ last.report[2][1] = "ok refs/heads/"
    /\ pre.head # pre.upstream_head

\* The advertisement lines that name a target
TargetedLines ==
    {i \in 1..Len(last.advertisement) :
        /\ Len(last.advertisement[i].ref_name) = 2
        /\ last.advertisement[i].ref_name[1] = "refs/heads/"
        /\ last.advertisement[i].ref_name[2] \in TargetNames}

\* A target is advertised at a hash the main store does not hold and the
\* push is not forced
MustForce ==
    /\ ~last.force_push
    /\ \E i \in TargetedLines : ~Has(pre.objects, last.advertisement[i].hash)

NoReportStatus ==
    \A i \in 1..Len(last.advertisement) :
        \/ last.advertisement[i].caps = None
        \/ \A k \in 1..Len(last.advertisement[i].caps[1]) :
               last.advertisement[i].caps[1][k] # "report-status"

ImportedDeltas == last.op = "import_packfile" /\ "pack" \in DOMAIN last

RemoveAt(seq, i) == SubSeq(seq, 1, i - 1) \o SubSeq(seq, i + 1, Len(seq))

\* The deferred deltas resolved one after the other for as long as the
\* source of one of them is in the store
RECURSIVE ResolvedInPasses(_, _, _)
RECURSIVE ResolvedNext(_, _, _, _, _)
ResolvedInPasses(store, pending_delta, build) ==
    IF pending_delta = <<>> THEN [objects |-> store, result |-> "Ok"]
    ELSE IF FirstResolvable(store, pending_delta) = 0
         THEN [objects |-> store, result |-> "InvalidPackfile"]
    ELSE ResolvedNext(store, pending_delta, FirstResolvable(store, pending_delta),
                      Reconstruct(pending_delta[FirstResolvable(store, pending_delta)][2],
                                  Content(pending_delta[FirstResolvable(store, pending_delta)][3]),
                                  build),
                      build)

ResolvedNext(store, pending_delta, i, rebuilt, build) ==
    IF rebuilt.result # "Ok" THEN [objects |-> store, result |-> rebuilt.result]
    ELSE ResolvedInPasses(StoreInsert(store, Hash(ObjType(pending_delta[i][3]), rebuilt.dst),
                                      pending_delta[i][3]),
                          RemoveAt(pending_delta, i), build)

FirstLoop == ReadRecords(pre.objects, last.pack, <<>>, last.build)

\* C14: when the loop over the records of a pack has deferred deltas, the
\* import ends as the passes over the deferred deltas end: with every
\* delta resolved and inserted, or with InvalidPackfile once none of those
\* left can be resolved.
C14_DeferredDeltasResolvedInPasses ==
    (ImportedDeltas /\ FirstLoop.result = "Ok" /\ FirstLoop.pending_delta # <<>>) =>
        /\ last.result = ResolvedInPasses(FirstLoop.objects, FirstLoop.pending_delta,
                                          last.build).result
        /\ objects = ResolvedInPasses(FirstLoop.objects, FirstLoop.pending_delta,
                                      last.build).objects

Faulty(c) == c.truncated \/ ~InRange(c.prog, c.src)

\* C19: a pack made of a blob and of a delta on that blob whose COPY range
\* is not inside the blob, or whose last instruction lacks a byte, is
\* refused with InvalidPackfile and leaves the blob alone in the store.
C19_FaultyDeltaInsertsNothing ==
    \A c \in DeltaCases :
        (ImportedDeltas /\ Faulty(c) /\ last.pack = <<Hash("blob", c.src), RecordOf(c)>>) =>
            (last.result = "InvalidPackfile" /\ DOMAIN objects = {Hash("blob", c.src)})

(***************************************************************************)
(* Properties of reconstruct                                               *)
(***************************************************************************)
Reconstructed == last.op = "reconstruct"

WellFormed ==
    /\ ~last.truncated
    /\ last.declared = TargetLen(last.prog)
    /\ InRange(last.prog, last.src)
    /\ \A i \in 1..Len(last.prog) :
          last.prog[i].kind = "insert" => Len(last.prog[i].data) \in 1..127

\* C15: on a delta that declares the length of its target, whose copies
\* are inside the source and whose inserts have 1 to 127 bytes,
\* reconstruct returns the target the instructions describe.
C15_WellFormedDeltaGivesTarget ==
    (Reconstructed /\ WellFormed) =>
        (last.result = "Ok" /\ last.dst = Target(last.prog, last.src))

\* C16: on a delta of one COPY instruction whose size operand is zero, by
\* absent size bytes or by a zero size byte, and with 0x10000 bytes in the
\* source from its offset on, reconstruct returns those 0x10000 bytes.
C16_ZeroSizeCopyIs65536 ==
    ( /\ Reconstructed /\ ~last.truncated
      /\ Len(last.prog) = 1
      /\ last.prog[1].kind = "copy"
      /\ SizeOperand(last.prog[1]) = 0
      /\ last.prog[1].offset + DocumentedCopySize <= Len(last.src) ) =>
        /\ last.result = "Ok"
        /\ last.dst = SubSeq(last.src, last.prog[1].offset + 1,
                             last.prog[1].offset + DocumentedCopySize)

\* C17: the buffer reconstruct returns has the length the delta declares
\* for its target.
C17_ReturnedLengthIsDeclared ==
    (Reconstructed /\ last.result = "Ok") => Len(last.dst) = last.declared

\* C18: a delta with an INSERT instruction of no byte is refused with
\* InvalidPackfile.
C18_EmptyInsertRefused ==
    (Reconstructed /\ \E i \in 1..Len(last.prog) : last.prog[i] = InsertOf(<<>>)) =>
        last.result = "InvalidPackfile"

(***************************************************************************)
(* Properties of the size varints                                          *)
(***************************************************************************)
\* The group of the k-th byte of a varint and the shift it is placed at:
\* read_size takes four bits of the first byte, read_hdr_size seven
GroupOf(op, bytes, k) ==
    IF op = "read_size" /\ k = 1 THEN bytes[k] % 16 ELSE bytes[k] % 128

ShiftOf(op, k) ==
    IF op = "read_size" THEN (IF k = 1 THEN 0 ELSE 4 + 7 * (k - 2)) ELSE 7 * (k - 1)

\* A bit of a group falls beyond the last bit of the word
Overflows(op, bytes) ==
    \E k \in 1..Len(bytes) : \E b \in 0..6 :
        BitSet(GroupOf(op, bytes, k), b) /\ ShiftOf(op, k) + b >= WordBits

\* C20: a size varint whose value does not fit the word is refused with
\* InvalidPackfile by read_size and by read_hdr_size.
C20_OverflowingVarintRefused ==
    (last.op \in {"read_size", "read_hdr_size"} /\ Overflows(last.op, last.buffer)) =>
        last.result = "InvalidPackfile"

(***************************************************************************)
(* Properties of read_line                                                 *)
(***************************************************************************)
\* read_line has returned or failed, and nothing was drained since
ReadLineReturned == pc = "idle" /\ last.op = "read_line"

\* The header of the line read_line has just decided on
HeaderAtReturn == SubSeq(receive_buffer, 1, 4)

ControlHeaderReturned ==
    /\ ReadLineReturned
    /\ Len(receive_buffer) >= 4
    /\ HeaderAtReturn \in {Encode(packet) : packet \in ControlPackets}

\* What a header of 0000, 0001 or 0002 stands for
ControlOf(header) ==
    (CHOOSE packet \in ControlPackets : Encode(packet) = header).kind

\* What the caller of read_line is told: None stands for a flush, the only
\* control the result of read_line can express
Reported ==
    IF last.result = "None" THEN "flush"
    ELSE IF last.result = "Some" THEN "data"
    ELSE "error"

\* C21 as stated: a header of 0000, 0001 or 0002 is reported as the flush,
\* the delimiter and the response-end control respectively, four bytes are
\* consumed and no data line is returned.
C21_ControlsDecodedRespectively ==
    ControlHeaderReturned =>
        /\ Reported = ControlOf(HeaderAtReturn)
        /\ to_skip = 4
        /\ last.result # "Some"

\* C21: a header of 0000, 0001 or 0002 makes read_line return None, the
\* same for the three of them; four bytes are consumed (the next call drains
\* exactly the header) and the line is not returned as data.
C21_ControlsReturnNone ==
    ControlHeaderReturned =>
        /\ last.result = "None"
        /\ last.line = <<>>
        /\ last.returned[Len(last.returned)] = <<"None", <<>>>>
        /\ to_skip = 4

\* C21 witness: the second line of the connection was a delimiter packet
\* and None was returned for it, behind a data line.
C21_Witness ==
    /\ ControlHeaderReturned
    /\ HeaderAtReturn = Encode(DelimiterPacket)
    /\ last.result = "None" /\ to_skip = 4
    /\ Len(last.returned) = 2 /\ last.returned[1][1] = "Some"

\* C22: a header declaring the length 0003 makes read_line return
\* GitProtocolError, and is not reported as a flush.
C22_LengthThreeRefused ==
    (ReadLineReturned /\ Len(receive_buffer) >= 4 /\ HeaderAtReturn = Encode(ThreePacket)) =>
        (last.result = "GitProtocolError" /\ Reported # "flush")

\* Every line the remote sends is a control packet or a data line
WellFormedStream == \A i \in 1..Len(last.frames) : last.frames[i] \in WellFormedFrames

\* What read_line is to return for a line
Expected(frame) ==
    IF frame.kind = "data" THEN <<"Some", frame.payload>> ELSE <<"None", <<>>>>

\* The bytes of the stream that were drained or are to be drained next
Consumed == Len(EncodeAll(last.frames)) - Len(run) - Len(receive_buffer) + to_skip

\* The number of lines returned so far
LinesReturned ==
    IF Len(last.returned) <= Len(last.frames) THEN Len(last.returned) ELSE Len(last.frames)

\* C27: on a stream of well-formed packet lines, however the transport
\* splits it into Data events, the successive calls of read_line return the
\* payloads of the lines in order, each once (None for a control packet),
\* nothing but an error after the last one, and the bytes consumed are the
\* declared lengths of the lines returned (four for a control packet).
C27_LinesReturnedInOrder ==
    WellFormedStream =>
        /\ \A i \in 1..Len(last.returned) :
              IF i <= Len(last.frames)
              THEN last.returned[i] = Expected(last.frames[i])
              ELSE last.returned[i] = <<"GitProtocolError", <<>>>>
        /\ Consumed = Len(EncodeAll(SubSeq(last.frames, 1, LinesReturned)))

\* C27 witness: a data line whose payload reads as a flush packet, then a
\* flush packet, delivered in Data events of which one ends inside the
\* first header and one inside the second; both lines were returned.
C27_Witness ==
    /\ pc = "idle"
    /\ last.frames = <<DataLine(<<48, 48, 48, 48>>), FlushPacket>>
    /\ last.splits = 2
    /\ last.returned = <<<<"Some", <<48, 48, 48, 48>>>>, <<"None", <<>>>>>>
    /\ Consumed = 12

\* read_line waits for an event of the transport
Polling == pc = "poll"

\* A timeout leaves read_line polling, with nothing returned, nothing
\* failed and the buffer as it was
TimeoutKeepsPolling ==
    DoPollNone =>
        /\ pc' = "poll"
        /\ last'.returned = last.returned
        /\ last'.result = last.result
        /\ receive_buffer' = receive_buffer
        /\ to_skip' = to_skip

\* The results read_line has for a line
LineResults == {Expected(frame) : frame \in Frames}

\* The bytes received and those yet to be delivered begin with a complete
\* line, for which read_line is to return the given result
Deliverable(expected) ==
    /\ Polling
    /\ ReadLineCheck(receive_buffer \o run).done
    /\ expected = <<ReadLineCheck(receive_buffer \o run).result,
                    ReadLineCheck(receive_buffer \o run).line>>

ReturnedLine(expected) ==
    ReadLineReturned /\ expected = <<last.result, last.line>>

\* C28: a poll that times out (RunEvent::None) never makes read_line return
\* or fail, read_line polls again; and when the transport delivers the
\* remaining bytes of a complete line, read_line eventually returns that
\* line.
C28_TimeoutsDoNotAbort ==
    /\ [][TimeoutKeepsPolling]_vars
    /\ \A expected \in LineResults : Deliverable(expected) ~> ReturnedLine(expected)

\* C28 witness: read_line returned a data line of one byte after a poll of
\* the same call had timed out and a Data event had ended inside the header.
C28_Witness ==
    /\ ReadLineReturned
    /\ last.timed_out
    /\ last.splits > 0
    /\ last.result = "Some" /\ last.line = <<120>>

(***************************************************************************)
(* Properties of the side-band reader                                      *)
(***************************************************************************)
\* PackfileReader::read_line has handled a line with a tag
SidebandLineRead ==
    last.op = "packfile_read_line" /\ last.line # None /\ last.line # Some(<<>>)

\* C29: the payload of a line with tag 1 is appended to the pack buffer and
\* to the raw buffer, after what they held; a line with tag 2 or 3 appends
\* nothing and is no error; a line with any other tag, and no other line, is
\* reported as GitProtocolError.
C29_OnlyOtherTagsAreErrors ==
    SidebandLineRead =>
        /\ buffer = last.before.buffer
                       \o (IF Head(last.line[1]) = 1 THEN Tail(last.line[1]) ELSE <<>>)
        /\ out = last.before.out
                       \o (IF Head(last.line[1]) = 1 THEN Tail(last.line[1]) ELSE <<>>)
        /\ (last.result = "GitProtocolError") <=> (Head(last.line[1]) \notin {1, 2, 3})

(***************************************************************************)
(* Properties of from_hex                                                  *)
(***************************************************************************)
\* A byte of the text is no hexadecimal digit
HasNonHex(hex) == \E i \in 1..Len(hex) : HexValue(hex[i]) < 0

\* C24: from_hex of the text Display writes for an identifier is that
\* identifier, and from_hex is None for every text whose length is not 40
\* or that holds a character other than 0-9, a-f, A-F.
C24_FromHexInvertsDisplayAndRejects ==
    last.op = "from_hex" =>
        /\ last.id # None => last.parsed = last.id
        /\ (Len(last.hex) # 40 \/ HasNonHex(last.hex)) => last.parsed = None

(***************************************************************************)
(* Properties of tree objects                                              *)
(***************************************************************************)
\* The entries a directory holds after the insertions: for each name, the
\* entry inserted last under it
EntriesHeld(insertions) ==
    {insertions[i] : i \in {j \in 1..Len(insertions) :
                              \A k \in (j + 1)..Len(insertions) :
                                  insertions[k][1] # insertions[j][1]}}

\* C23: the entries read back from the tree object serialize_directory
\* makes are the directory's entries, name, hash and mode, and they come in
\* ascending byte order of their names whatever the order of insertion.
C23_TreeRoundTripInNameOrder ==
    last.op = "tree_iter" =>
        /\ last.result = "Ok"
        /\ {last.items[i] : i \in 1..Len(last.items)} = EntriesHeld(last.insertions)
        /\ \A i \in 1..(Len(last.items) - 1) : BytesLess(last.items[i][1], last.items[i + 1][1])

(***************************************************************************)
(* Properties of stage                                                     *)
(***************************************************************************)
\* C35: a stage call that fails with PathError leaves root, the scratch
\* store and the directory cache as they were.
C35_PathErrorLeavesRepository ==
    (last.op = "stage" /\ last.result = "PathError") =>
        (root = pre.root /\ staged = pre.staged /\ directories = pre.directories)

\* C34: commit completes after every sequence of stage calls: the unwrap of
\* commit_object finds in the directory cache every scratch tree it reaches
\* from root.
C34_CommitCompletes ==
    last.op = "commit" => last.result # "panic"

\* C36: every stage call terminates: no object of the scratch store has a
\* chain of delta hints that leads back to itself, so that the walk of
\* find_committed_hash_root ends from every hash.
C36_HintWalkTerminates ==
    /\ last.result # "hang"
    /\ \A hash \in DOMAIN staged : FindCommittedHashRoot(staged, hash) # Diverges

(***************************************************************************)
(* Properties of the promotion                                             *)
(***************************************************************************)
RECURSIVE TreeReach(_)
\* A tree or blob and, for a tree, all that its entries name in turn
TreeReach(hash) ==
    IF ObjType(hash) # "tree" THEN {hash}
    ELSE {hash} \cup UNION {TreeReach(Content(hash)[i][3]) : i \in 1..Len(Content(hash))}

\* C37: after a successful commit every tree and blob reachable from the
\* tree of head is in the main store and none of them is in the scratch
\* store, and the scratch objects that were not reachable from root are
\* still in the scratch store.
C37_CommitPromotesReachable ==
    CommitOk =>
        /\ \A hash \in TreeReach(CommitTree(Content(head))) :
              Has(objects, hash) /\ ~Has(staged, hash)
        /\ \A hash \in DOMAIN pre.staged :
              (pre.root = None \/ hash \notin TreeReach(pre.root[1])) => Has(staged, hash)

StageOk == last.op = "stage" /\ last.result = "Ok"

\* The segments of the path of the last call
Segs == PathAll(last.path)

\* Before the call, the i-th segment of the path, which is not the last,
\* named an entry that is no directory
FileInTheWay(i) ==
    /\ i < Len(Segs)
    /\ i <= Len(Along(pre, last.path))
    /\ Along(pre, last.path)[i][2] # "Directory"

\* Before the call, the whole path named a directory
NamedDirectory ==
    /\ NamesEntry(pre, last.path)
    /\ Along(pre, last.path)[Len(Segs)][2] = "Directory"

\* The entry the staged file has after the call
StagedEntry == <<Hash("blob", last.data[1][1]), ModeFromFileType(last.data[1][2])>>

\* From the i-th segment down, the path names directories that hold nothing
\* but the next segment, and the staged file at its end
OnlyStagedPathBelow(i) ==
    /\ Len(Along(Repo, last.path)) = Len(Segs)
    /\ \A j \in i..(Len(Segs) - 1) :
          /\ Along(Repo, last.path)[j][2] = "Directory"
          /\ DOMAIN DirOf(Repo, Along(Repo, last.path)[j][1]) = {Segs[j + 1]}
    /\ Along(Repo, last.path)[Len(Segs)] = StagedEntry

\* What stage does with a directory under the whole path
DirectoryReplaced ==
    (StageOk /\ NamedDirectory) =>
        IF last.data # None
        THEN /\ Len(Along(Repo, last.path)) = Len(Segs)
             /\ Along(Repo, last.path)[Len(Segs)] = StagedEntry
        ELSE Len(Along(Repo, last.path)) < Len(Segs)

NameBytes(name) == [k \in 1..Len(name) |-> CharByte(name[k])]

\* The map serialize_directory walks for a cached directory, every child
\* written with the given 20 bytes for its identifier
EntryMap(dir, digest) ==
    LiteMapFromInsertions(
        [i \in 1..Len(SortedNames(DOMAIN dir)) |->
            <<NameBytes(SortedNames(DOMAIN dir)[i]), digest,
              dir[SortedNames(DOMAIN dir)[i]][2]>>],
        <<>>)

\* The name is not empty and has neither '/' nor NUL
PlainName(name) ==
    /\ name # <<>>
    /\ \A k \in 1..Len(name) : CharByte(name[k]) \notin {0, 47}

\* The tree object of the directory is read back by TreeIter as its entries
ReadsBack(dir) ==
    \A digest \in TreeHashes :
        /\ TreeIterAll(SerializeDirectoryBytes(EntryMap(dir, digest)), <<>>).result = "Ok"
        /\ TreeIterAll(SerializeDirectoryBytes(EntryMap(dir, digest)), <<>>).items
               = EntryMap(dir, digest)

\* C40: after a stage call that succeeds, every name in every directory the
\* call left in the cache is non-empty and has neither '/' nor NUL, and the
\* tree object serialized from each of these directories is read back as
\* the same entries.
C40_StagedNamesArePlain ==
    (last.op = "stage" /\ last.result = "Ok") =>
        \A hash \in DOMAIN directories :
            /\ \A name \in DOMAIN directories[hash] : PlainName(name)
            /\ ReadsBack(directories[hash])

\* The part of C40 about empty names and '/'
C40_NamesHaveNoSlash ==
    (last.op = "stage" /\ last.result = "Ok") =>
        \A hash \in DOMAIN directories : \A name \in DOMAIN directories[hash] :
            name # <<>> /\ \A k \in 1..Len(name) : name[k] # "/"

\* The conclusion of C40 for the names without NUL
C40_PlainNamesReadBack ==
    (last.op = "stage" /\ last.result = "Ok") =>
        \A hash \in DOMAIN directories :
            (\A name \in DOMAIN directories[hash] : PlainName(name))
                => ReadsBack(directories[hash])

(***************************************************************************)
(* Properties of the packfile writer                                       *)
(***************************************************************************)
\* The objects an object names: a commit's parents and tree, a tree's
\* children
NamedBy(hash) ==
    IF ObjType(hash) = "commit"
    THEN {CommitParents(Content(hash))[i] : i \in 1..Len(CommitParents(Content(hash)))}
             \cup {CommitTree(Content(hash))}
    ELSE IF ObjType(hash) = "tree"
    THEN {Content(hash)[i][3] : i \in 1..Len(Content(hash))}
    ELSE {}

RECURSIVE ReachableIn(_, _)
\* The objects of the store reached from the hash through objects of the
\* store
ReachableIn(store, hash) ==
    IF ~Has(store, hash) THEN {}
    ELSE {hash} \cup UNION {ReachableIn(store, named) : named \in NamedBy(hash)}

\* C31: the packfile written by Repository::pack holds each object at most
\* once, only objects reachable in the main store from the heads given, and
\* no object that was in to_skip when the call began.
C31_PackHoldsReachableOnce ==
    last.op = "pack" =>
        /\ \A i, j \in 1..Len(last.records) :
              i # j => last.records[i] # last.records[j]
        /\ \A i \in 1..Len(last.records) :
              /\ \E k \in 1..Len(last.heads_to_include) :
                    last.records[i] \in ReachableIn(objects, last.heads_to_include[k][2])
              /\ last.records[i] \notin last.to_skip

\* C31 witness: two heads that share a parent and a blob have been packed
\* from a store that holds all they reach, with a tree in to_skip
C31_Witness ==
    /\ last.op = "pack"
    /\ Len(last.heads_to_include) = 2
    /\ last.heads_to_include[1][2] = RCommit2
    /\ last.heads_to_include[2][2] = RCommit3
    /\ DOMAIN objects = PackUniverse
    /\ last.to_skip = {RTreeB}
    /\ Len(last.records) = 6

\* C32: the number of objects in the header of the packfile is the number
\* of object records written after it.
C32_HeaderCountsRecords ==
    last.op = "pack" => last.num_objects = Len(last.records)

\* C32 witness: a pack of several records has been written for two heads
\* that share history, from a store that lacks an object they reach, with
\* an object they reach in to_skip
C32_Witness ==
    /\ last.op = "pack"
    /\ Len(last.heads_to_include) = 2
    /\ last.heads_to_include[1][2] # last.heads_to_include[2][2]
    /\ ~Has(objects, RTreeAB)
    /\ Has(objects, RCommit2)
    /\ RBlob1 \in last.to_skip
    /\ last.num_objects >= 3

(***************************************************************************)
(* Properties of PackfileSender                                            *)
(***************************************************************************)
RECURSIVE ChannelBytes(_)
\* The bytes of the slices given to write_raw, in the order of the calls
ChannelBytes(channel) ==
    IF channel = <<>> THEN <<>> ELSE Head(channel).slice \o ChannelBytes(Tail(channel))

\* The bytes written to the sender, then the 20 bytes of their digest
WrittenThenDigest(written) ==
    RunsNorm(<< <<"data", <<>>, 0, written>>,
                <<"sha1", RunsNorm(<< <<"data", <<>>, 0, written>> >>), 0, 20>> >>)

\* A call of write_raw has failed
WriteFailed == \E i \in 1..Len(sent) : sent[i].result # "Ok"

\* C33: the slices given to the channel are, end to end, the buffers
\* written followed by the 20-byte digest of those bytes, none is longer
\* than 64000 bytes, and once a write to the channel has failed nothing
\* more is given to it and finish returns the error.
C33_ChunksCarryStreamAndDigest ==
    last.op \in {"write", "finish"} =>
        /\ \A i \in 1..Len(sent) :
              /\ RunsLen(sent[i].slice) <= 64000
              /\ RunsLen(sent[i].slice) > 0
              /\ sent[i].result # "Ok" => i = Len(sent)
        /\ ~WriteFailed =>
              RunsNorm(ChannelBytes(sent) \o last.sender.buffer)
                  = IF last.op = "finish" THEN WrittenThenDigest(last.written)
                    ELSE RunsNorm(<< <<"data", <<>>, 0, last.written>> >>)
        /\ last.op = "finish" =>
              /\ last.sender.buffer = <<>>
              /\ last.result = IF WriteFailed THEN "GitProtocolError" ELSE "Ok"
        /\ last.op = "write" => last.result = "Ok"

\* C33 witness: a sender given three buffers, two of them flushed in
\* several slices, has been finished without a failed write
C33_Witness ==
    /\ last.op = "finish"
    /\ last.result = "Ok"
    /\ last.written = 64001 + 128001 + 20
    /\ Len(sent) >= 6

\* A write to the channel failed before the call of finish, which gave
\* the channel nothing more and returned the error
C33_WitnessFailure ==
    /\ last.op = "finish"
    /\ last.result = "GitProtocolError"
    /\ RunsLen(ChannelBytes(sent)) < last.written

====
